---------------------------- MODULE Spec2Model ----------------------------
(***************************************************************************)
(* Verification model of the Maps_Reimagined front ends.                   *)
(*                                                                         *)
(*  - src/script.js    : haversine distance, nearest facility, pincode     *)
(*                       polygon finder, analyzeUserPincode handler        *)
(*  - src/integral1.js : normalize, calculateScores, handleBusinessSelect, *)
(*                       analyzePincode handler                            *)
(*                                                                         *)
(* Numbers.  JavaScript doubles are modelled by integers:                  *)
(*  - coordinates are whole degrees; trigonometry is evaluated in fixed    *)
(*    point with SCALE units per 1.0 and truncation toward zero, so that   *)
(*    sin(-x) = -sin(x) as in IEEE arithmetic;                             *)
(*  - a distance is a whole number of kilometres, NaN is the distance of a *)
(*    station whose coordinates are not numbers, Infinity is the initial   *)
(*    value of the running minimum;                                        *)
(*  - scores are exact rationals <<n, d>>, NaN being <<0, 0>>.             *)
(* Strings that the code inspects character by character (attribute       *)
(* values, pincodes) are sequences of one-character strings.               *)
(***************************************************************************)
EXTENDS Integers, Sequences, FiniteSets, TLC

VARIABLES
    \* ---- getNearest called as a pure function (script.js:240, integral1.js:77)
    nList,        \* the candidate list argument: NULL or an array of stations
    nLat, nLng,   \* the reference point
    nResult,      \* what the call returned
    nPc           \* "ready" before the call, "done" after it

VARIABLES
    \* ---- script.js (the page of index.html)
    loadPc,             \* the file loadAllDataDefensive fetches next, or
                        \* "done" / "failed" ("idle": page not modelled)
    results,            \* the features fetched so far {pincodes, points}
    delhiPincodeLayer,  \* NULL or the pincode layer group
    metroStations,      \* sequence of {name, lat, lng}
    busStops,           \* sequence of {name, lat, lng}
    lastLayers,         \* sequence of overlay layers of the last analysis
    dataLayers,         \* the GeoJSON data layers on the map
    overlay,            \* the analysis overlay layers on the map
    mapView,            \* stamp of the layer the map was last fitted to
    banner,             \* the #map-error-banner element
    bannerTimers,       \* pending setTimeout callbacks hiding the banner
    lastAlert,          \* the last alert() shown
    trace,              \* the steps the last findLocation call went through
    pincodeArg,         \* the argument of the analyzeUserPincode call in trace
    turfLoaded          \* whether turf.centroid can be called

VARIABLES
    \* ---- integral1.js (the NCRBusinessAnalyzer component, map card shown)
    srvPincodeFile,     \* features of delhi_pincode.geojson as served
    srvPointsFile,      \* features of delhi_points.geojson as served
    geoLoaded,          \* useState: geoLoaded
    pincodeGeo,         \* useState: pincodeGeo (NULL or the parsed file)
    pointsGeo,          \* useState: pointsGeo
    metroStationsState, \* useState: metroStations
    busStopsState,      \* useState: busStops
    loads,              \* loadGeoJSONsForTransit calls in flight
    lastLayersRef,      \* lastLayersRef.current
    mapOverlay,         \* the layers analyzePincode put on mapInstanceRef.current
    fitted,             \* whether the map was fitted to a pincode polygon
    shownAlert,         \* the last alert() shown
    steps,              \* the steps the last analyzePincode call went through
    analyzedPincode,    \* the argument of the analyzePincode call in steps
    cardPc              \* "shown" while the map card is up ("idle": not modelled)

VARIABLES
    \* ---- integral1.js: the scorer and the business selection screen
    microMarketData,    \* the market table
    scorePc,            \* "ready" / "called": calculateScores called as a
                        \* function; "page": the component ("idle": not modelled)
    businessTypeArg,    \* the argument of the calculateScores call made as a function
    normalizedValues,   \* the normalize results of that call, market by market
    scores,             \* what that call returned
    selectedBusiness,   \* useState: selectedBusiness
    analysisData,       \* useState: analysisData
    showMap             \* useState: showMap

VARIABLES
    \* ---- tryFetchAny called as a function (script.js:87, integral1.js:227)
    fOutcomes,          \* what fetching each candidate path does, in
                        \* PATH_CANDIDATES order
    fJson,              \* the JSON the file holds
    fResult,            \* what the call returned
    fPc                 \* "ready" before the call, "returned" after it

VARIABLES
    \* ---- searchNearbyBusinesses called as a function (src/src/App.jsx:588)
    bResponse,          \* what the fetch of the request does
    bLat, bLon,         \* the searched coordinates
    bResult,            \* what the call returned
    bPc                 \* "ready" before the call, "returned" after it

VARIABLES
    \* ---- integral1.js: one market of the built-in table scored for one
    \* built-in category (the map callback of calculateScores, 112-139)
    rowCategory,        \* the key of businessCategories
    rowIndex,           \* the place of the market in microMarketData
    rowScores,          \* the sub-scores computed for it
    rowPc               \* "ready" before the callback, "scored" after it

nearestVars == <<nList, nLat, nLng, nResult, nPc>>

rowVars == <<rowCategory, rowIndex, rowScores, rowPc>>

searchVars == <<bResponse, bLat, bLon, bResult, bPc>>

fetchVars == <<fOutcomes, fJson, fResult, fPc>>

scriptVars == <<loadPc, results, delhiPincodeLayer, metroStations, busStops,
                lastLayers, dataLayers, overlay, mapView, banner, bannerTimers,
                lastAlert, trace, pincodeArg, turfLoaded>>

integralVars == <<srvPincodeFile, srvPointsFile, geoLoaded, pincodeGeo, pointsGeo,
                  metroStationsState, busStopsState, loads, lastLayersRef,
                  mapOverlay, fitted, shownAlert, steps, analyzedPincode, cardPc>>

scoreVars == <<microMarketData, scorePc, businessTypeArg, normalizedValues, scores,
               selectedBusiness, analysisData, showMap>>

vars == <<nearestVars, scriptVars, integralVars, scoreVars, fetchVars, searchVars, rowVars>>

\* What the actions of one part leave alone.
notNearest == <<scriptVars, integralVars, scoreVars, fetchVars, searchVars, rowVars>>
notScript == <<nearestVars, integralVars, scoreVars, fetchVars, searchVars, rowVars>>
notIntegral == <<nearestVars, scriptVars, scoreVars, fetchVars, searchVars, rowVars>>
notScore == <<nearestVars, scriptVars, integralVars, fetchVars, searchVars, rowVars>>
notFetch == <<nearestVars, scriptVars, integralVars, scoreVars, searchVars, rowVars>>
notSearch == <<nearestVars, scriptVars, integralVars, scoreVars, fetchVars, rowVars>>
notRow == <<nearestVars, scriptVars, integralVars, scoreVars, fetchVars, searchVars>>

-----------------------------------------------------------------------------
(* Values                                                                  *)

\* JavaScript null / undefined.
NULL == [kind |-> "null"]

\* A JavaScript array holding the sequence q (an array argument may also be
\* null, which no sequence is).
Arr(q) == [kind |-> "array", items |-> q]

\* An exception escaping the function.
THROWN == [kind |-> "throw"]

\* Not-a-number, as a coordinate and as a distance.
NaN == -1000000

\* Infinity, the initial running minimum of getNearest.
Infinity == 1000000000

\* The length of the longest candidate list drawn.
MaxStations == 3

-----------------------------------------------------------------------------
(* Fixed-point arithmetic standing for Math.sin, Math.cos, Math.sqrt and   *)
(* Math.atan2                                                              *)

\* Units per 1.0 .
SCALE == 10^4

\* Math.PI in SCALE units.
PI == 31416

\* Division truncating toward zero.
Div(a, b) == IF a >= 0 THEN a \div b ELSE -((-a) \div b)

\* Fixed-point product.
Mul(a, b) == Div(a * b, SCALE)

\* Math.sin by its Taylor polynomial (|x| <= PI/2).
Sin(x) ==
    LET x2 == Mul(x, x)
        x3 == Mul(x, x2)
        x5 == Mul(x3, x2)
        x7 == Mul(x5, x2)
    IN  x - Div(x3, 6) + Div(x5, 120) - Div(x7, 5040)

\* Math.cos by its Taylor polynomial (|x| <= PI/2).
Cos(x) ==
    LET x2 == Mul(x, x)
        x4 == Mul(x2, x2)
        x6 == Mul(x4, x2)
        x8 == Mul(x6, x2)
    IN  SCALE - Div(x2, 2) + Div(x4, 24) - Div(x6, 720) + Div(x8, 40320)

RECURSIVE ISqrt(_, _, _)
\* The integer square root of n, by bisection on lo..hi.
ISqrt(n, lo, hi) ==
    IF lo >= hi THEN lo
    ELSE LET mid == (lo + hi + 1) \div 2
         IN  IF mid * mid <= n THEN ISqrt(n, mid, hi) ELSE ISqrt(n, lo, mid - 1)

\* Math.sqrt: NaN below zero.
Sqrt(a) == IF a < 0 THEN NaN ELSE ISqrt(a * SCALE, 0, 4 * SCALE)

\* atan on [0, 1/2] by its Taylor polynomial.
AtanSeries(t) ==
    LET t2 == Mul(t, t)
        t3 == Mul(t, t2)
        t5 == Mul(t3, t2)
        t7 == Mul(t5, t2)
        t9 == Mul(t7, t2)
    IN  t - Div(t3, 3) + Div(t5, 5) - Div(t7, 7) + Div(t9, 9)

\* atan on [0, 1]: halve the angle, then the series.
Atan(t) ==
    2 * AtanSeries(Div(t * SCALE, SCALE + Sqrt(SCALE + Mul(t, t))))

\* Math.atan2(y, x) for y, x >= 0; NaN in, NaN out.
Atan2(y, x) ==
    IF y = NaN \/ x = NaN THEN NaN
    ELSE IF y = 0 THEN 0
    ELSE IF y <= x THEN Atan(Div(y * SCALE, x))
    ELSE Div(PI, 2) - Atan(Div(x * SCALE, y))

-----------------------------------------------------------------------------
(* script.js:231-238 / integral1.js:68-75                                  *)

\* Earth radius in km.
R == 6371

\* const toRad = v => v * Math.PI / 180
toRad(v) == Div(v * PI, 180)

\* The haversine distance with the cosine of the first latitude taken
\* twice (for the cosines of both latitudes).
distanceKm_cosFirstOnly(lat1, lon1, lat2, lon2) ==
    IF NaN \in {lat1, lon1, lat2, lon2} THEN NaN
    ELSE
    LET dLat == toRad(lat2 - lat1)
        dLon == toRad(lon2 - lon1)
        sLat == Sin(Div(dLat, 2))
        sLon == Sin(Div(dLon, 2))
        a    == Mul(sLat, sLat)
                  + Mul(Mul(Cos(toRad(lat1)), Cos(toRad(lat1))), Mul(sLon, sLon))
        c    == Atan2(Sqrt(a), Sqrt(SCALE - a))
    IN  IF c = NaN THEN NaN ELSE Div(R * 2 * c, SCALE)

\* The haversine distance, in whole km; NaN when a coordinate is NaN.
distanceKm(lat1, lon1, lat2, lon2) ==
    IF NaN \in {lat1, lon1, lat2, lon2} THEN NaN
    ELSE
    LET dLat == toRad(lat2 - lat1)
        dLon == toRad(lon2 - lon1)
        sLat == Sin(Div(dLat, 2))
        sLon == Sin(Div(dLon, 2))
        a    == Mul(sLat, sLat)
                  + Mul(Mul(Cos(toRad(lat1)), Cos(toRad(lat2))), Mul(sLon, sLon))
        c    == Atan2(Sqrt(a), Sqrt(SCALE - a))
    IN  IF c = NaN THEN NaN ELSE Div(R * 2 * c, SCALE)

\* src/src/App.jsx: const calculateDistance = (lat1, lon1, lat2, lon2) =>
\* ..., in whole km: the degrees are multiplied by (Math.PI / 180), the
\* sines are multiplied with themselves.
calculateDistance(lat1, lon1, lat2, lon2) ==
    IF NaN \in {lat1, lon1, lat2, lon2} THEN NaN
    ELSE
    LET rad  == Div(PI, 180)
        dLat == (lat2 - lat1) * rad
        dLon == (lon2 - lon1) * rad
        a    == Mul(Sin(Div(dLat, 2)), Sin(Div(dLat, 2)))
                  + Mul(Mul(Mul(Cos(lat1 * rad), Cos(lat2 * rad)), Sin(Div(dLon, 2))),
                        Sin(Div(dLon, 2)))
        t    == Atan2(Sqrt(a), Sqrt(SCALE - a))
    IN  IF t = NaN THEN NaN ELSE Div(R * (2 * t), SCALE)

\* JavaScript's d < min on numbers: false when either side is NaN.
Less(d, min) == d # NaN /\ min # NaN /\ d < min

-----------------------------------------------------------------------------
(* script.js:240-248 / integral1.js:77-85 (the two copies are the same     *)
(* text)                                                                   *)

RECURSIVE ScanNearest_lastWins(_, _, _, _, _, _)
\* The scan with d <= min for d < min: a later candidate at the same
\* distance replaces the best so far.
ScanNearest_lastWins(list, lat, lng, i, best, min) ==
    IF i > Len(list) THEN [best |-> best, min |-> min]
    ELSE LET s == list[i]
             d == distanceKm(lat, lng, s.lat, s.lng)
         IN  IF d # NaN /\ ~Less(min, d)
             THEN ScanNearest_lastWins(list, lat, lng, i + 1, s, d)
             ELSE ScanNearest_lastWins(list, lat, lng, i + 1, best, min)

RECURSIVE ScanNearest(_, _, _, _, _, _)
\* list.forEach(s => { const d = distanceKm(...); if (d < min) {...} })
\* from index i on, with the running best and min.
ScanNearest(list, lat, lng, i, best, min) ==
    IF i > Len(list) THEN [best |-> best, min |-> min]
    ELSE LET s == list[i]
             d == distanceKm(lat, lng, s.lat, s.lng)
         IN  IF Less(d, min)
             THEN ScanNearest(list, lat, lng, i + 1, s, d)
             ELSE ScanNearest(list, lat, lng, i + 1, best, min)

RECURSIVE ScanFarthest(_, _, _, _, _, _)
\* The scan with the comparison turned round (d > min, starting below 0).
ScanFarthest(list, lat, lng, i, best, min) ==
    IF i > Len(list) THEN [best |-> best, min |-> min]
    ELSE LET s == list[i]
             d == distanceKm(lat, lng, s.lat, s.lng)
         IN  IF Less(min, d)
             THEN ScanFarthest(list, lat, lng, i + 1, s, d)
             ELSE ScanFarthest(list, lat, lng, i + 1, best, min)

\* getNearest keeping the farthest candidate.
getNearest_farthest(list, lat, lng) ==
    IF list = NULL \/ Len(list.items) = 0 THEN NULL
    ELSE LET r == ScanFarthest(list.items, lat, lng, 1, NULL, -1)
         IN  IF r.best # NULL
             THEN [kind |-> "found", station |-> r.best, distance_km |-> r.min]
             ELSE NULL

\* getNearest without the `!list ||` guard: list.length of null throws.
getNearest_noNullGuard(list, lat, lng) ==
    IF list = NULL THEN THROWN
    ELSE IF Len(list.items) = 0 THEN NULL
    ELSE LET r == ScanNearest(list.items, lat, lng, 1, NULL, Infinity)
         IN  IF r.best # NULL
             THEN [kind |-> "found", station |-> r.best, distance_km |-> r.min]
             ELSE NULL

\* getNearest falling back on the first candidate when no candidate has a
\* distance below Infinity.
getNearest_firstWhenNone(list, lat, lng) ==
    IF list = NULL \/ Len(list.items) = 0 THEN NULL
    ELSE LET r == ScanNearest(list.items, lat, lng, 1, NULL, Infinity)
         IN  IF r.best # NULL
             THEN [kind |-> "found", station |-> r.best, distance_km |-> r.min]
             ELSE [kind |-> "found", station |-> list.items[1], distance_km |-> NaN]

\* The candidate list after a getNearest call: forEach reads it (243-246),
\* nothing is assigned to the list or to a candidate.
ListAfter(list, lat, lng) == list

\* function getNearest(list, lat, lng)
getNearest(list, lat, lng) ==
    IF list = NULL \/ Len(list.items) = 0 THEN NULL
    ELSE LET r == ScanNearest(list.items, lat, lng, 1, NULL, Infinity)
         IN  IF r.best # NULL
             THEN [kind |-> "found", station |-> r.best, distance_km |-> r.min]
             ELSE NULL

-----------------------------------------------------------------------------
(* getNearest as a pure function: the inputs                               *)

\* Latitudes and longitudes of the model's grid, in degrees.
GridLat == {0, 10, 20}
GridLng == {70, 80}

\* Candidate stations {name, lat, lng}; S4 and S5 carry coordinates that are
\* not numbers.
StationPool ==
    { [name |-> "S1", lat |-> 0,   lng |-> 70],
      [name |-> "S2", lat |-> 20,  lng |-> 70],
      [name |-> "S3", lat |-> 10,  lng |-> 80],
      [name |-> "S4", lat |-> NaN, lng |-> 70],
      [name |-> "S5", lat |-> NaN, lng |-> NaN] }

RECURSIVE SeqsUpTo(_, _)
\* All sequences over S of length 0..n.
SeqsUpTo(S, n) ==
    IF n = 0 THEN {<<>>}
    ELSE LET shorter == SeqsUpTo(S, n - 1)
         IN  shorter \cup {Append(q, x) : q \in {p \in shorter : Len(p) = n - 1}, x \in S}

\* The elements of a sequence.
Range(q) == {q[i] : i \in 1..Len(q)}

NearestInit ==
    /\ nList \in {NULL} \cup {Arr(q) : q \in SeqsUpTo(StationPool, MaxStations)}
    /\ nLat \in GridLat
    /\ nLng \in GridLng
    /\ nResult = NULL
    /\ nPc = "ready"

\* The variables of the getNearest call when no call is modelled.
NearestIdle ==
    /\ nList = NULL
    /\ nLat = 0
    /\ nLng = 0
    /\ nResult = NULL
    /\ nPc = "idle"

\* One call getNearest(list, lat, lng).
CallGetNearest ==
    /\ nPc = "ready"
    /\ nResult' = getNearest(nList, nLat, nLng)
    /\ nList' = ListAfter(nList, nLat, nLng)
    /\ nPc' = "done"
    /\ UNCHANGED <<nLat, nLng>>
    /\ UNCHANGED notNearest

\* The distance functions called both ways between the reference point
\* and the first candidate: distanceKm(a, b), distanceKm(b, a), and the same
\* for calculateDistance.
CallDistanceKm ==
    /\ nPc = "ready"
    /\ nList # NULL
    /\ Len(nList.items) >= 1
    /\ \E s \in {nList.items[1]} :
         nResult' = [kind |-> "distances",
                     forth |-> distanceKm(nLat, nLng, s.lat, s.lng),
                     back |-> distanceKm(s.lat, s.lng, nLat, nLng),
                     appForth |-> calculateDistance(nLat, nLng, s.lat, s.lng),
                     appBack |-> calculateDistance(s.lat, s.lng, nLat, nLng)]
    /\ nPc' = "measured"
    /\ UNCHANGED <<nList, nLat, nLng>>
    /\ UNCHANGED notNearest

NearestNext ==
    \/ CallGetNearest
    \/ CallDistanceKm

-----------------------------------------------------------------------------
(* Strings: sequences of one-character strings                             *)

\* The characters String.prototype.trim removes.
IsSpace(c) == c = " "

RECURSIVE TrimStart(_)
TrimStart(s) ==
    IF Len(s) > 0 /\ IsSpace(s[1]) THEN TrimStart(Tail(s)) ELSE s

RECURSIVE TrimEnd(_)
TrimEnd(s) ==
    IF Len(s) > 0 /\ IsSpace(s[Len(s)]) THEN TrimEnd(SubSeq(s, 1, Len(s) - 1)) ELSE s

\* String.prototype.trim
Trim(s) == TrimEnd(TrimStart(s))

RECURSIVE MatchAt(_, _, _, _)
\* Whether p[k..] is found in s from position i + k - 1 on.
MatchAt(s, p, i, k) ==
    IF k > Len(p) THEN TRUE
    ELSE IF i + k - 1 > Len(s) THEN FALSE
    ELSE s[i + k - 1] = p[k] /\ MatchAt(s, p, i, k + 1)

RECURSIVE IncludesFrom(_, _, _)
\* The search of String.prototype.includes from position i on.
IncludesFrom(s, p, i) ==
    IF i + Len(p) - 1 > Len(s) THEN FALSE
    ELSE MatchAt(s, p, i, 1) \/ IncludesFrom(s, p, i + 1)

\* String.prototype.includes
Includes(s, p) == IncludesFrom(s, p, 1)

\* The decimal digit of d in 0..9.
DigitChar(d) == <<"0", "1", "2", "3", "4", "5", "6", "7", "8", "9">>[d + 1]

RECURSIVE Digits(_)
\* Number.prototype.toString of a natural number.
Digits(n) == IF n < 10 THEN <<DigitChar(n)>> ELSE Append(Digits(n \div 10), DigitChar(n % 10))

\* An attribute value of a GeoJSON feature: a string or a number.
StrVal(s) == [t |-> "string", s |-> s]
NumVal(n) == [t |-> "number", n |-> n]

\* String(v)
String(v) == IF v.t = "number" THEN Digits(v.n) ELSE v.s

\* The lower-case form of one character.
LowerChar(c) ==
    CASE c = "M" -> "m"
      [] c = "B" -> "b"
      [] c = "U" -> "u"
      [] c = "S" -> "s"
      [] OTHER -> c

\* String.prototype.toLowerCase
ToLowerCase(s) == [i \in 1..Len(s) |-> LowerChar(s[i])]

RECURSIVE Join(_, _)
\* Array.prototype.join of the strings of q with separator sep.
Join(q, sep) ==
    IF Len(q) = 0 THEN <<>>
    ELSE IF Len(q) = 1 THEN q[1]
    ELSE q[1] \o sep \o Join(Tail(q), sep)

\* Object.values(props), each converted as join converts it.
ValueStrings(props) == [i \in 1..Len(props) |-> String(props[i].value)]

-----------------------------------------------------------------------------
(* GeoJSON test data                                                       *)

\* The most polygon features in a pincode file.
MaxPolygons == 2

\* One property of a feature.
Prop(k, v) == [key |-> k, value |-> v]

\* Pincode polygon features: properties in insertion order, and the rings of
\* the polygon as sequences of <<lng, lat>> positions (each ring closed).
\* the pincode as a string attribute
PolyPincode11 ==
    [properties |-> <<Prop("pincode", StrVal(<<"1", "1">>))>>,
     rings |-> <<<< <<70, 0>>, <<70, 20>>, <<80, 20>>, <<80, 0>>, <<70, 0>> >>>>]
\* a pincode inside an address, another one as a number attribute
PolyAddress11 ==
    [properties |-> <<Prop("address", StrVal(<<"a", ",", "1", "1", " ", "b">>)), Prop("pin", NumVal(12))>>,
     rings |-> <<<< <<60, 0>>, <<60, 40>>, <<80, 40>>, <<80, 0>>, <<60, 0>> >>>>]
\* a pincode padded with blanks; a polygon with a hole
PolyPadded12 ==
    [properties |-> <<Prop("pincode", StrVal(<<" ", "1", "2", " ">>))>>,
     rings |-> << << <<70, 10>>, <<70, 30>>, <<90, 30>>, <<90, 10>>, <<70, 10>> >>,
                  << <<72, 12>>, <<72, 16>>, <<76, 16>>, <<76, 12>>, <<72, 12>> >> >>]
\* no properties at all
PolyNoProps ==
    [properties |-> <<>>,
     rings |-> <<<< <<70, 0>>, <<70, 10>>, <<80, 10>>, <<80, 0>>, <<70, 0>> >>>>]

PolygonPool == {PolyPincode11, PolyAddress11, PolyPadded12, PolyNoProps}

\* Point features: properties and geometry {type, coordinates [lng, lat]}.
PointMetroA ==
    [properties |-> <<Prop("name", StrVal(<<"M", "e", "t", "r", "o", " ", "a">>))>>,
     geometry |-> [type |-> "Point", coordinates |-> <<70, 0>>]]
PointBusB ==
    [properties |-> <<Prop("type", StrVal(<<"B", "U", "S">>)), Prop("label", StrVal(<<"b", "1">>))>>,
     geometry |-> [type |-> "Point", coordinates |-> <<70, 20>>]]
PointBusMetro ==
    [properties |-> <<Prop("name", StrVal(<<"b", "u", "s", " ", "m", "e", "t", "r", "o">>))>>,
     geometry |-> [type |-> "Point", coordinates |-> <<80, 10>>]]
\* neither: "me" and "tro" are two values
PointOther ==
    [properties |-> <<Prop("name", StrVal(<<"m", "e">>)), Prop("ref", StrVal(<<"t", "r", "o">>))>>,
     geometry |-> [type |-> "Point", coordinates |-> <<80, 20>>]]
PointMetroNaN ==
    [properties |-> <<Prop("kind", StrVal(<<"m", "e", "t", "r", "o">>))>>,
     geometry |-> [type |-> "Point", coordinates |-> <<NaN, NaN>>]]
PointMetroLine ==
    [properties |-> <<Prop("name", StrVal(<<"m", "e", "t", "r", "o">>))>>,
     geometry |-> [type |-> "LineString", coordinates |-> <<70, 0>>]]

\* The feature arrays a pincode file may hold.
PincodeFiles == SeqsUpTo(PolygonPool, MaxPolygons)

\* The feature arrays a points file may hold: no point, metro stations
\* only, bus stops only, both, a point that is both, points that are
\* neither or unusable.
PointFiles ==
    { <<>>,
      <<PointMetroA, PointBusMetro>>,
      <<PointBusB, PointOther>>,
      <<PointBusB, PointMetroA>>,
      <<PointMetroNaN, PointMetroLine, PointBusB>> }

\* The files served to the map card of integral1.js: pincode files with no
\* feature, two matches in either order, a padded value and a feature
\* without properties; a points file with a bus stop, a metro station and
\* a point that is neither, and one without the metro station.
ServedPincodeFiles ==
    { <<>>,
      <<PolyPincode11, PolyAddress11>>,
      <<PolyAddress11, PolyPincode11>>,
      <<PolyNoProps, PolyPadded12>> }
ServedPointFiles ==
    { <<PointBusB, PointMetroA, PointOther>>,
      <<PointBusB, PointOther>> }

\* The <<pincode file, points file>> pairs served: every pincode file with
\* the first points file, the pincode file of two matches also with the
\* points file without a metro station.
ServedFiles ==
    {<<p, <<PointBusB, PointMetroA, PointOther>>>> : p \in ServedPincodeFiles}
        \cup {<<<<PolyAddress11, PolyPincode11>>, <<PointBusB, PointOther>>>>}

\* What the user may type into the pincode prompt / input box.
RawPincodes == { <<>>, <<" ">>, <<"1", "1">>, <<" ", "1", "1">>, <<"1", "2">>, <<"9">> }

-----------------------------------------------------------------------------
(* script.js: data loading (84-203)                                        *)

\* The keys of `files`, in Object.keys order.
FileKeys == <<"areas", "pincodes", "city", "points">>

\* What fetching one candidate path may do: answer OK with JSON, answer with
\* a non-OK status, or throw (network error, invalid JSON).
FetchOutcomes == {"ok", "notok", "throw"}

\* const PATH_CANDIDATES = (filename) => [`data/${filename}`, filename]:
\* the candidate paths of one file, in the order they are tried.
PATH_CANDIDATES == <<"data/<filename>", "<filename>">>

RECURSIVE TryCandidates_stopsOnThrow(_, _, _)
\* The loop without its try/catch: a thrown fetch or parse error ends it.
TryCandidates_stopsOnThrow(outcomes, json, i) ==
    IF i > Len(outcomes) THEN NULL
    ELSE IF outcomes[i] = "ok" THEN [kind |-> "fetched", json |-> json, path |-> i]
    ELSE IF outcomes[i] = "throw" THEN NULL
    ELSE TryCandidates_stopsOnThrow(outcomes, json, i + 1)

RECURSIVE TryCandidates(_, _, _)
\* for (const p of candidates) { try { ... } catch (e) { ... } } from
\* candidate i on; outcomes[i] is what fetching candidates[i] does.
TryCandidates(outcomes, json, i) ==
    IF i > Len(outcomes) THEN NULL
    ELSE IF outcomes[i] = "ok" THEN [kind |-> "fetched", json |-> json, path |-> i]
    ELSE TryCandidates(outcomes, json, i + 1)

\* async function tryFetchAny(filename): candidates are data/<filename>,
\* then <filename>.
tryFetchAny(outcomes, json) == TryCandidates(outcomes, json, 1)

\* tryFetchAny called on its own: every combination of what the candidate
\* paths do, for every pincode or points file.
FetchInit ==
    /\ fOutcomes \in [1..Len(PATH_CANDIDATES) -> FetchOutcomes]
    /\ fJson \in PincodeFiles \cup PointFiles
    /\ fResult = NULL
    /\ fPc = "ready"

\* The variables of the tryFetchAny call when no call is modelled.
FetchIdle ==
    /\ fOutcomes = <<>>
    /\ fJson = <<>>
    /\ fResult = NULL
    /\ fPc = "idle"

\* One call await tryFetchAny(filename).
CallTryFetchAny ==
    /\ fPc = "ready"
    /\ fResult' = tryFetchAny(fOutcomes, fJson)
    /\ fPc' = "returned"
    /\ UNCHANGED <<fOutcomes, fJson>>
    /\ UNCHANGED notFetch

\* L.geoJSON(json): one layer per feature, stamped in feature order.
GeoJSONLayers(features) ==
    [kind |-> "layerGroup",
     layers |-> [i \in 1..Len(features) |-> [stamp |-> i, feature |-> features[i]]]]

RECURSIVE PropLookup(_, _, _)
\* props[key], NULL when the object has no such key.
PropLookup(props, key, i) ==
    IF i > Len(props) THEN NULL
    ELSE IF props[i].key = key THEN props[i].value
    ELSE PropLookup(props, key, i + 1)

\* Whether a property value is truthy (so that `||` stops at it).
Truthy(v) ==
    /\ v # NULL
    /\ IF v.t = "number" THEN v.n # 0 /\ v.n # NaN ELSE Len(v.s) > 0

RECURSIVE FirstTruthy(_, _, _)
\* props.k1 || props.k2 || ... || dflt
FirstTruthy(props, keys, dflt) ==
    IF Len(keys) = 0 THEN dflt
    ELSE LET v == PropLookup(props, keys[1], 1)
         IN  IF Truthy(v) THEN v ELSE FirstTruthy(props, Tail(keys), dflt)

\* The search text without the toLowerCase call.
SearchText_caseSensitive(props) == Join(ValueStrings(props), <<" ">>)

\* const searchText = Object.values(props).join(" ").toLowerCase()
SearchText(props) == ToLowerCase(Join(ValueStrings(props), <<" ">>))

\* Whether the forEach callback goes past its geometry check (171).
IsPointFeature(f) == f.geometry.type = "Point"

RECURSIVE DetectStations(_, _, _, _)
\* pointsJSON.features.forEach(...) restricted to one category: the stations
\* pushed for the features whose search text includes the keyword.
DetectStations(features, keyword, nameKeys, dflt) ==
    IF Len(features) = 0 THEN <<>>
    ELSE LET f == features[1]
             rest == DetectStations(Tail(features), keyword, nameKeys, dflt)
         IN  IF IsPointFeature(f) /\ Includes(SearchText(f.properties), keyword)
             THEN <<[name |-> FirstTruthy(f.properties, nameKeys, dflt),
                     lat |-> f.geometry.coordinates[2],
                     lng |-> f.geometry.coordinates[1]]>> \o rest
             ELSE rest

\* The metro stations / bus stops detected in a points file (175-186).
DetectMetro(features) ==
    DetectStations(features, <<"m", "e", "t", "r", "o">>, <<"name", "label", "station">>,
                   StrVal(<<"U", "n", "n", "a", "m", "e", "d", " ", "M", "e", "t", "r", "o">>))
DetectBus(features) ==
    DetectStations(features, <<"b", "u", "s">>, <<"name", "label", "stop">>,
                   StrVal(<<"U", "n", "n", "a", "m", "e", "d", " ", "B", "u", "s", " ", "S", "t", "o", "p">>))

-----------------------------------------------------------------------------
(* script.js: the page's state                                             *)

\* showBanner(message, isError, persist): the banner after the call.
ShownBanner(message, isError) ==
    [text |-> message, isError |-> isError, visible |-> TRUE]

\* After DOMContentLoaded, at the first await of loadAllDataDefensive: the
\* "Loading" banner is up with its hide timer pending, nothing is loaded.
ScriptInit ==
    /\ loadPc = "areas"
    /\ results = [pincodes |-> <<>>, points |-> <<>>]
    /\ delhiPincodeLayer = NULL
    /\ metroStations = <<>>
    /\ busStops = <<>>
    /\ lastLayers = <<>>
    /\ dataLayers = {}
    /\ overlay = {}
    /\ mapView = 0
    /\ banner = ShownBanner("Loading GeoJSON files...", FALSE)
    /\ bannerTimers = 1
    /\ lastAlert = NULL
    /\ trace = <<>>
    /\ pincodeArg = NULL
    /\ turfLoaded \in BOOLEAN

\* The page's variables when the page is not modelled.
ScriptIdle ==
    /\ loadPc = "idle"
    /\ results = [pincodes |-> <<>>, points |-> <<>>]
    /\ delhiPincodeLayer = NULL
    /\ metroStations = <<>>
    /\ busStops = <<>>
    /\ lastLayers = <<>>
    /\ dataLayers = {}
    /\ overlay = {}
    /\ mapView = 0
    /\ banner = [text |-> "", isError |-> FALSE, visible |-> FALSE]
    /\ bannerTimers = 0
    /\ lastAlert = NULL
    /\ trace = <<>>
    /\ pincodeArg = NULL
    /\ turfLoaded = FALSE

\* The key after `key` in FileKeys.
NextFileKey(key) ==
    CASE key = "areas" -> "pincodes"
      [] key = "pincodes" -> "city"
      [] key = "city" -> "points"

\* The features a fetched file may hold: polygons for the pincode file,
\* points for the points file; the other two files are only drawn.
FileContents(key) ==
    CASE key = "pincodes" -> PincodeFiles
      [] key = "points" -> PointFiles
      [] OTHER -> {<<>>}

\* results after results[key] = r.
StoreResult(res, key, r) ==
    CASE key = "pincodes" -> [res EXCEPT !.pincodes = r.json]
      [] key = "points" -> [res EXCEPT !.points = r.json]
      [] OTHER -> res

\* loadAllDataDefensive, one await of tryFetchAny that finds no candidate:
\* the throw of line 131 lands in the catch of 199-202.
LoadFetchFails ==
    /\ loadPc \in Range(FileKeys)
    /\ \E outcomes \in [1..2 -> FetchOutcomes] :
         tryFetchAny(outcomes, <<>>) = NULL
    /\ loadPc' = "failed"
    /\ banner' = ShownBanner("Failed to load some data", TRUE)
    /\ UNCHANGED <<results, delhiPincodeLayer, metroStations, busStops, lastLayers,
                   dataLayers, overlay, mapView, bannerTimers, lastAlert, trace, pincodeArg,
                   turfLoaded>>
    /\ UNCHANGED notScript

\* loadAllDataDefensive, one await of tryFetchAny that succeeds for one of
\* the first three files.
LoadFetchNext ==
    /\ loadPc \in Range(FileKeys) \ {"points"}
    /\ \E outcomes \in [1..2 -> FetchOutcomes], json \in FileContents(loadPc) :
         LET r == tryFetchAny(outcomes, json)
         IN  /\ r # NULL
             /\ results' = StoreResult(results, loadPc, r)
    /\ loadPc' = NextFileKey(loadPc)
    /\ UNCHANGED <<delhiPincodeLayer, metroStations, busStops, lastLayers,
                   dataLayers, overlay, mapView, banner, bannerTimers, lastAlert,
                   trace, pincodeArg, turfLoaded>>
    /\ UNCHANGED notScript

\* loadAllDataDefensive from the last successful await to its end: the
\* four layers are added, the stations detected, the success banner shown.
LoadFetchLast ==
    /\ loadPc = "points"
    /\ \E outcomes \in [1..2 -> FetchOutcomes], json \in FileContents(loadPc) :
         LET r == tryFetchAny(outcomes, json)
             res == StoreResult(results, loadPc, r)
         IN  /\ r # NULL
             /\ results' = res
             /\ delhiPincodeLayer' = GeoJSONLayers(res.pincodes)
             /\ metroStations' = DetectMetro(res.points)
             /\ busStops' = DetectBus(res.points)
    /\ dataLayers' = {"areas", "pincodes", "city", "points"}
    /\ banner' = ShownBanner("All data loaded", FALSE)
    /\ bannerTimers' = bannerTimers + 1
    /\ loadPc' = "done"
    /\ UNCHANGED <<lastLayers, overlay, mapView, lastAlert, trace, pincodeArg, turfLoaded>>
    /\ UNCHANGED notScript

\* A setTimeout callback of showBanner (23) fires and hides the banner.
BannerTimeout ==
    /\ loadPc # "idle"
    /\ bannerTimers > 0
    /\ bannerTimers' = bannerTimers - 1
    /\ banner' = [banner EXCEPT !.visible = FALSE]
    /\ UNCHANGED <<loadPc, results, delhiPincodeLayer, metroStations, busStops,
                   lastLayers, dataLayers, overlay, mapView, lastAlert, trace, pincodeArg,
                   turfLoaded>>
    /\ UNCHANGED notScript

-----------------------------------------------------------------------------
(* script.js: findPolygonForPincode (206-228)                              *)

RECURSIVE PropsMatchExact(_, _, _)
\* The property test with the substring alternative left out.
PropsMatchExact(props, pincode, i) ==
    IF i > Len(props) THEN FALSE
    ELSE LET v == Trim(String(props[i].value))
         IN  IF v = pincode THEN TRUE
             ELSE PropsMatchExact(props, pincode, i + 1)

RECURSIVE PropsMatch(_, _, _)
\* for (const key in props) { const v = String(props[key]).trim();
\*   if (v === String(pincode) || v.includes(String(pincode))) ... }
\* from property i on: whether some property makes the callback set found.
PropsMatch(props, pincode, i) ==
    IF i > Len(props) THEN FALSE
    ELSE LET v == Trim(String(props[i].value))
         IN  IF v = pincode \/ Includes(v, pincode) THEN TRUE
             ELSE PropsMatch(props, pincode, i + 1)

\* Whether the eachLayer callback sets `found = layer` for this layer.
LayerMatches(layer, pincode) == PropsMatch(layer.feature.properties, pincode, 1)

RECURSIVE EachLayerFind(_, _, _, _)
\* delhiPincodeLayer.eachLayer(layer => { ... found = layer; return; ... })
\* from layer i on.  The `return` leaves the callback of one layer only:
\* eachLayer goes on to the layers after it.
EachLayerFind(layers, pincode, i, found) ==
    IF i > Len(layers) THEN found
    ELSE IF LayerMatches(layers[i], pincode)
         THEN EachLayerFind(layers, pincode, i + 1, layers[i])
         ELSE EachLayerFind(layers, pincode, i + 1, found)

\* function findPolygonForPincode(pincode)
findPolygonForPincode(group, pincode) ==
    IF group = NULL THEN NULL
    ELSE EachLayerFind(group.layers, pincode, 1, NULL)

-----------------------------------------------------------------------------
(* turf.centroid (script.js:275, integral1.js:308)                         *)

RECURSIVE SumCoord(_, _)
\* The sum of coordinate k over a sequence of positions.
SumCoord(positions, k) ==
    IF Len(positions) = 0 THEN 0
    ELSE positions[1][k] + SumCoord(Tail(positions), k)

\* The positions of the first (outer) ring only, without its closing one.
RingPositions_outerOnly(rings) ==
    IF Len(rings) = 0 THEN <<>>
    ELSE SubSeq(rings[1], 1, Len(rings[1]) - 1)

RECURSIVE RingPositions(_)
\* The positions turf's coordEach visits with excludeWrapCoord: every
\* position of every ring but each ring's closing one.
RingPositions(rings) ==
    IF Len(rings) = 0 THEN <<>>
    ELSE SubSeq(rings[1], 1, Len(rings[1]) - 1) \o RingPositions(Tail(rings))

\* turf.centroid(feature).geometry.coordinates: the mean <<lng, lat>> of the
\* visited positions.
TurfCentroid(feature) ==
    LET ps == RingPositions(feature.rings)
    IN  IF Len(ps) = 0 THEN <<NaN, NaN>>
        ELSE <<Div(SumCoord(ps, 1), Len(ps)), Div(SumCoord(ps, 2), Len(ps))>>

-----------------------------------------------------------------------------
(* script.js: clearLast, analyzeUserPincode, findLocation (250-325)        *)

\* An overlay layer: a circle marker or marker at `at`, or a polyline from
\* `at` to `to`.
OverlayLayer(type, what, at, to) == [type |-> type, what |-> what, at |-> at, to |-> to]

\* The marker and the line pushed for a nearest station (297-299, 306-308).
StationLayers(what, nearest, lat, lng) ==
    IF nearest = NULL THEN <<>>
    ELSE LET m == nearest.station
         IN  <<OverlayLayer("marker", what, <<m.lat, m.lng>>, <<m.lat, m.lng>>),
               OverlayLayer("polyline", what, <<lat, lng>>, <<m.lat, m.lng>>)>>

\* metroText / busText of the result alert.
StationText(nearest) ==
    IF nearest = NULL THEN NULL
    ELSE [name |-> nearest.station.name, km |-> nearest.distance_km]

\* alert(...) shown by the handlers.
Alert(msg, metro, bus) == [kind |-> "alert", msg |-> msg, metro |-> metro, bus |-> bus]

\* analyzeUserPincode, first return: the pincode layer is not loaded.
AnalyzeStillLoading ==
    /\ delhiPincodeLayer = NULL
    /\ lastAlert' = Alert("Data still loading", NULL, NULL)
    /\ trace' = <<"analyzeUserPincode", "alert">>
    /\ UNCHANGED <<lastLayers, overlay, mapView>>

\* The second return looking the pincode up a second time and reporting
\* that the data is loading.
AnalyzeNotFound_retry(polygonLayer) ==
    /\ delhiPincodeLayer # NULL
    /\ polygonLayer = NULL
    /\ lastAlert' = Alert("Data still loading", NULL, NULL)
    /\ trace' = <<"analyzeUserPincode", "findPolygonForPincode",
                  "findPolygonForPincode", "alert">>
    /\ UNCHANGED <<lastLayers, overlay, mapView>>

\* The second return with clearLast() called before the alert.
AnalyzeNotFound_clears(polygonLayer) ==
    /\ delhiPincodeLayer # NULL
    /\ polygonLayer = NULL
    /\ lastAlert' = Alert("Pincode not found in dataset", NULL, NULL)
    /\ trace' = <<"analyzeUserPincode", "findPolygonForPincode", "alert">>
    /\ overlay' = overlay \ Range(lastLayers)
    /\ lastLayers' = <<>>
    /\ UNCHANGED mapView

\* analyzeUserPincode, second return: no polygon found.
AnalyzeNotFound(polygonLayer) ==
    /\ delhiPincodeLayer # NULL
    /\ polygonLayer = NULL
    /\ lastAlert' = Alert("Pincode not found in dataset", NULL, NULL)
    /\ trace' = <<"analyzeUserPincode", "findPolygonForPincode", "alert">>
    /\ UNCHANGED <<lastLayers, overlay, mapView>>

\* analyzeUserPincode, third return: turf.centroid throws.
AnalyzeCentroidFails(polygonLayer) ==
    /\ delhiPincodeLayer # NULL
    /\ polygonLayer # NULL
    /\ ~turfLoaded
    /\ mapView' = polygonLayer.stamp
    /\ lastAlert' = Alert("Failed to compute polygon centroid", NULL, NULL)
    /\ trace' = <<"analyzeUserPincode", "findPolygonForPincode", "fitBounds",
                  "centroid", "alert">>
    /\ UNCHANGED <<lastLayers, overlay>>

\* The layers drawn for a result: the centroid marker, then marker and line
\* of the nearest metro station, then of the nearest bus stop
\* (script.js:289-310, integral1.js:317-334).
ResultLayers(lat, lng, nearestMetro, nearestBus) ==
    <<OverlayLayer("circleMarker", "centroid", <<lat, lng>>, <<lat, lng>>)>>
        \o StationLayers("metro", nearestMetro, lat, lng)
        \o StationLayers("bus", nearestBus, lat, lng)

\* The result alert turned into the error alert when a category has no
\* nearest station.
ResultAlert_failsOnNone(nearestMetro, nearestBus) ==
    IF nearestMetro = NULL \/ nearestBus = NULL
    THEN Alert("An unexpected error occurred", NULL, NULL)
    ELSE Alert("Pincode result", StationText(nearestMetro), StationText(nearestBus))

\* The result alert (script.js:312, integral1.js:336).
ResultAlert(nearestMetro, nearestBus) ==
    Alert("Pincode result", StationText(nearestMetro), StationText(nearestBus))

\* analyzeUserPincode run to its end without the clearLast() call of line
\* 286: the layers of the previous analysis stay on the map.
AnalyzeDraws_keepsPrevious(polygonLayer) ==
    /\ delhiPincodeLayer # NULL
    /\ polygonLayer # NULL
    /\ turfLoaded
    /\ mapView' = polygonLayer.stamp
    /\ \E centroid \in {TurfCentroid(polygonLayer.feature)} :
       \E nearestMetro \in {getNearest(Arr(metroStations), centroid[2], centroid[1])} :
       \E nearestBus \in {getNearest(Arr(busStops), centroid[2], centroid[1])} :
       \E drawn \in {ResultLayers(centroid[2], centroid[1], nearestMetro, nearestBus)} :
           /\ overlay' = overlay \cup Range(drawn)
           /\ lastLayers' = drawn
           /\ lastAlert' = ResultAlert(nearestMetro, nearestBus)
    /\ trace' = <<"analyzeUserPincode", "findPolygonForPincode", "fitBounds",
                  "centroid", "getNearest", "getNearest", "clearLast", "draw",
                  "alert">>

\* analyzeUserPincode run to its end: nearest stations, clearLast, the new
\* overlay, the result alert.
AnalyzeDraws(polygonLayer) ==
    /\ delhiPincodeLayer # NULL
    /\ polygonLayer # NULL
    /\ turfLoaded
    /\ mapView' = polygonLayer.stamp
    /\ \E centroid \in {TurfCentroid(polygonLayer.feature)} :
       \E nearestMetro \in {getNearest(Arr(metroStations), centroid[2], centroid[1])} :
       \E nearestBus \in {getNearest(Arr(busStops), centroid[2], centroid[1])} :
       \E drawn \in {ResultLayers(centroid[2], centroid[1], nearestMetro, nearestBus)} :
           /\ overlay' = (overlay \ Range(lastLayers)) \cup Range(drawn)
           /\ lastLayers' = drawn
           /\ lastAlert' = ResultAlert(nearestMetro, nearestBus)
    /\ trace' = <<"analyzeUserPincode", "findPolygonForPincode", "fitBounds",
                  "centroid", "getNearest", "getNearest", "clearLast", "draw",
                  "alert">>

\* async function analyzeUserPincode(pincode): it never awaits, so it runs
\* as one step.
analyzeUserPincode(pincode) ==
    \E polygonLayer \in {findPolygonForPincode(delhiPincodeLayer, pincode)} :
        /\ pincodeArg' = StrVal(pincode)
        /\ \/ AnalyzeStillLoading
           \/ AnalyzeNotFound(polygonLayer)
           \/ AnalyzeCentroidFails(polygonLayer)
           \/ AnalyzeDraws(polygonLayer)

\* window.findLocation with `raw` typed into the prompt: nothing for an
\* empty answer, analyzeUserPincode(p.trim()) otherwise.
FindLocation ==
    /\ loadPc # "idle"
    /\ \E raw \in RawPincodes :
         IF Len(raw) = 0
         THEN /\ trace' = <<>>
              /\ UNCHANGED <<lastLayers, overlay, mapView, lastAlert, pincodeArg>>
         ELSE analyzeUserPincode(Trim(raw))
    /\ UNCHANGED <<loadPc, results, delhiPincodeLayer, metroStations, busStops,
                   dataLayers, banner, bannerTimers, turfLoaded>>
    /\ UNCHANGED notScript

\* function clearLast() called on its own (252-255).
ClearLast ==
    /\ loadPc # "idle"
    /\ overlay' = overlay \ Range(lastLayers)
    /\ lastLayers' = <<>>
    /\ UNCHANGED <<loadPc, results, delhiPincodeLayer, metroStations, busStops,
                   dataLayers, mapView, banner, bannerTimers, lastAlert, trace,
                   pincodeArg, turfLoaded>>
    /\ UNCHANGED notScript

ScriptNext ==
    \/ LoadFetchFails
    \/ LoadFetchNext
    \/ LoadFetchLast
    \/ BannerTimeout
    \/ FindLocation

-----------------------------------------------------------------------------
(* integral1.js: loadGeoJSONsForTransit, clearLast, analyzePincode         *)
(* (226-344)                                                               *)

\* The most loadGeoJSONsForTransit calls in flight at once.
MaxLoads == 2

\* A parsed GeoJSON file.
GeoJSON(features) == [kind |-> "geojson", features |-> features]

\* What a render of the component closes over, as analyzePincode reads it.
Closure ==
    [geoLoaded |-> geoLoaded, pincodeGeo |-> pincodeGeo,
     metroStations |-> metroStationsState, busStops |-> busStopsState]

\* The metro stations / bus stops detected in a points file (253-263).
DetectMetroI(features) ==
    DetectStations(features, <<"m", "e", "t", "r", "o">>, <<"name", "label">>, StrVal(<<"m", "e", "t", "r", "o">>))
DetectBusI(features) ==
    DetectStations(features, <<"b", "u", "s">>, <<"name", "label">>, StrVal(<<"b", "u", "s">>))

RECURSIVE SomeValueIncludes(_, _, _)
\* Object.values(props).some(v => String(v).includes(String(pincode)))
\* from property i on.
SomeValueIncludes(props, pincode, i) ==
    IF i > Len(props) THEN FALSE
    ELSE IF Includes(String(props[i].value), pincode) THEN TRUE
    ELSE SomeValueIncludes(props, pincode, i + 1)

RECURSIVE FindFeature(_, _, _)
\* (pincodeGeo.features || []).find(f => ...) from feature i on: the index
\* and the feature found, or NULL.
FindFeature(features, pincode, i) ==
    IF i > Len(features) THEN NULL
    ELSE IF SomeValueIncludes(features[i].properties, pincode, 1)
         THEN [stamp |-> i, feature |-> features[i]]
         ELSE FindFeature(features, pincode, i + 1)

\* analyzePincode from clearLast() to its end (315-338): every layer of
\* lastLayersRef leaves the map, the polygon layer pushed at 304 among
\* them, then the result is drawn and alerted.
AnalyzeDrawn(stamp, lat, lng, nearestMetro, nearestBus, layersBefore, overlayBefore) ==
    LET polygon == OverlayLayer("polygon", "pincode", <<stamp, stamp>>, <<stamp, stamp>>)
        pushed == Append(layersBefore, polygon)
        drawn == ResultLayers(lat, lng, nearestMetro, nearestBus)
    IN  [lastLayers |-> drawn,
         overlay |-> ((overlayBefore \cup {polygon}) \ Range(pushed)) \cup Range(drawn),
         fitted |-> stamp,
         alert |-> ResultAlert(nearestMetro, nearestBus),
         steps |-> <<"analyzePincode", "find", "draw polygon", "fitBounds",
                     "centroid", "getNearest", "getNearest", "clearLast",
                     "draw", "alert">>]

\* analyzePincode from the centroid on (308-313).
AnalyzeCentroid(c, stamp, centroid, layersBefore, overlayBefore) ==
    AnalyzeDrawn(stamp, centroid[2], centroid[1],
                 getNearest(Arr(c.metroStations), centroid[2], centroid[1]),
                 getNearest(Arr(c.busStops), centroid[2], centroid[1]),
                 layersBefore, overlayBefore)

\* analyzePincode after the search (300-308) that gave feat.
AnalyzeFeature(c, feat, layersBefore, overlayBefore, fittedBefore) ==
    IF feat = NULL
    THEN [lastLayers |-> layersBefore, overlay |-> overlayBefore,
          fitted |-> fittedBefore,
          alert |-> Alert("Pincode not found in pincode GeoJSON", NULL, NULL),
          steps |-> <<"analyzePincode", "find", "alert">>]
    ELSE AnalyzeCentroid(c, feat.stamp, TurfCentroid(feat.feature),
                         layersBefore, overlayBefore)

\* The map layers, lastLayersRef, view, alert and steps after the part of
\* analyzePincode that follows the await (290-338), run with closure c.
AnalyzeRest(c, pincode, layersBefore, overlayBefore, fittedBefore) ==
    IF c.pincodeGeo = NULL
    THEN [lastLayers |-> layersBefore, overlay |-> overlayBefore,
          fitted |-> fittedBefore,
          alert |-> Alert("Pincode GeoJSON not found", NULL, NULL),
          steps |-> <<"analyzePincode", "alert">>]
    ELSE AnalyzeFeature(c, FindFeature(c.pincodeGeo.features, pincode, 1),
                        layersBefore, overlayBefore, fittedBefore)

\* The map card has just been shown: createMap has started the first
\* loadGeoJSONsForTransit, nothing is loaded yet.
IntegralInit ==
    /\ \E served \in ServedFiles :
         /\ srvPincodeFile = served[1]
         /\ srvPointsFile = served[2]
    /\ geoLoaded = FALSE
    /\ pincodeGeo = NULL
    /\ pointsGeo = NULL
    /\ metroStationsState = <<>>
    /\ busStopsState = <<>>
    /\ loads = <<[stage |-> "pincode", p |-> NULL, waiter |-> NULL]>>
    /\ lastLayersRef = <<>>
    /\ mapOverlay = {}
    /\ fitted = 0
    /\ shownAlert = NULL
    /\ steps = <<>>
    /\ analyzedPincode = NULL
    /\ cardPc = "shown"

\* The component's variables when the component is not modelled.
IntegralIdle ==
    /\ srvPincodeFile = <<>>
    /\ srvPointsFile = <<>>
    /\ geoLoaded = FALSE
    /\ pincodeGeo = NULL
    /\ pointsGeo = NULL
    /\ metroStationsState = <<>>
    /\ busStopsState = <<>>
    /\ loads = <<>>
    /\ lastLayersRef = <<>>
    /\ mapOverlay = {}
    /\ fitted = 0
    /\ shownAlert = NULL
    /\ steps = <<>>
    /\ analyzedPincode = NULL
    /\ cardPc = "idle"

\* What tryFetchAny(filename) may return for a file with these features,
\* over all the outcomes of fetching its two candidate paths.
FetchResults(features) ==
    {tryFetchAny(outcomes, features) : outcomes \in [1..2 -> FetchOutcomes]}

\* q without its element i.
RemoveAt(q, i) == SubSeq(q, 1, i - 1) \o SubSeq(q, i + 1, Len(q))

\* loadGeoJSONsForTransit, first await: tryFetchAny('delhi_pincode.geojson').
LoadPincodeFile ==
    /\ \E i \in 1..Len(loads), p \in FetchResults(srvPincodeFile) :
         /\ loads[i].stage = "pincode"
         /\ loads' = [loads EXCEPT ![i].stage = "points", ![i].p = p]
    /\ UNCHANGED <<srvPincodeFile, srvPointsFile, geoLoaded, pincodeGeo, pointsGeo,
                   metroStationsState, busStopsState, lastLayersRef, mapOverlay,
                   fitted, shownAlert, steps, analyzedPincode, cardPc>>
    /\ UNCHANGED notIntegral

\* loadGeoJSONsForTransit from its second await to its end (245-269), and,
\* when analyzePincode was awaiting this call, the rest of analyzePincode
\* with the closure it was called in.
LoadPointsFile ==
    /\ \E i \in 1..Len(loads), pts \in FetchResults(srvPointsFile) :
         LET load == loads[i]
             features == IF pts = NULL THEN <<>> ELSE pts.json
         IN  /\ load.stage = "points"
             /\ pincodeGeo' = IF load.p # NULL THEN GeoJSON(load.p.json) ELSE pincodeGeo
             /\ pointsGeo' = IF pts # NULL THEN GeoJSON(pts.json) ELSE pointsGeo
             /\ metroStationsState' = DetectMetroI(features)
             /\ busStopsState' = DetectBusI(features)
             /\ geoLoaded' = TRUE
             /\ loads' = RemoveAt(loads, i)
             /\ IF load.waiter = NULL
                THEN UNCHANGED <<lastLayersRef, mapOverlay, fitted, shownAlert,
                                 steps, analyzedPincode>>
                ELSE \E after \in {AnalyzeRest(load.waiter.closure, load.waiter.pincode,
                                                lastLayersRef, mapOverlay, fitted)} :
                         /\ lastLayersRef' = after.lastLayers
                         /\ mapOverlay' = after.overlay
                         /\ fitted' = after.fitted
                         /\ shownAlert' = after.alert
                         /\ steps' = <<"await load">> \o after.steps
                         /\ analyzedPincode' = StrVal(load.waiter.pincode)
    /\ UNCHANGED <<srvPincodeFile, srvPointsFile, cardPc>>
    /\ UNCHANGED notIntegral

\* A click on "Find nearest metro/bus" with some text in the input box:
\* analyzePincode(pincodeInput.trim()) of the current render, up to its end
\* or up to its await of loadGeoJSONsForTransit.
ClickFindNearest ==
    /\ cardPc = "shown"
    /\ \E pincode \in {Trim(raw) : raw \in RawPincodes} :
         LET c == Closure
         IN  IF ~c.geoLoaded
             THEN /\ Len(loads) < MaxLoads
                  /\ loads' = Append(loads,
                        [stage |-> "pincode", p |-> NULL,
                         waiter |-> [pincode |-> pincode, closure |-> c]])
                  /\ UNCHANGED <<lastLayersRef, mapOverlay, fitted, shownAlert,
                                 steps, analyzedPincode>>
             ELSE \E after \in {AnalyzeRest(c, pincode, lastLayersRef, mapOverlay, fitted)} :
                      /\ lastLayersRef' = after.lastLayers
                      /\ mapOverlay' = after.overlay
                      /\ fitted' = after.fitted
                      /\ shownAlert' = after.alert
                      /\ steps' = after.steps
                      /\ analyzedPincode' = StrVal(pincode)
                      /\ UNCHANGED loads
    /\ UNCHANGED <<srvPincodeFile, srvPointsFile, geoLoaded, pincodeGeo, pointsGeo,
                   metroStationsState, busStopsState, cardPc>>
    /\ UNCHANGED notIntegral

\* A click on "Clear": clearLast() (276-282).
ClickClear ==
    /\ cardPc = "shown"
    /\ mapOverlay' = mapOverlay \ Range(lastLayersRef)
    /\ lastLayersRef' = <<>>
    /\ UNCHANGED <<srvPincodeFile, srvPointsFile, geoLoaded, pincodeGeo, pointsGeo,
                   metroStationsState, busStopsState, loads, fitted, shownAlert,
                   steps, analyzedPincode, cardPc>>
    /\ UNCHANGED notIntegral

IntegralNext ==
    \/ LoadPincodeFile
    \/ LoadPointsFile
    \/ ClickFindNearest
    \/ ClickClear

-----------------------------------------------------------------------------
(* Exact rational numbers standing for the doubles of the scorer: <<n, d>>  *)
(* in lowest terms with d > 0; <<1, 0>> and <<-1, 0>> are the infinities,   *)
(* <<0, 0>> is NaN.                                                         *)

QNaN == <<0, 0>>
IsNaN(a) == a[1] = 0 /\ a[2] = 0

Abs(n) == IF n < 0 THEN -n ELSE n
Sign(n) == IF n < 0 THEN -1 ELSE IF n > 0 THEN 1 ELSE 0

RECURSIVE GCD(_, _)
GCD(a, b) == IF b = 0 THEN a ELSE GCD(b, a % b)

\* n/d in lowest terms.
Q(n, d) ==
    IF d = 0 THEN <<Sign(n), 0>>
    ELSE <<(Sign(d) * n) \div GCD(Abs(n), Abs(d)), Abs(d) \div GCD(Abs(n), Abs(d))>>

\* The least common multiple of two positive denominators.
LCM(a, b) == (a \div GCD(a, b)) * b

QNeg(a) == <<-a[1], a[2]>>

\* a + b
QAdd(a, b) ==
    IF IsNaN(a) \/ IsNaN(b) THEN QNaN
    ELSE IF a[2] = 0 /\ b[2] = 0 THEN (IF a[1] = b[1] THEN a ELSE QNaN)
    ELSE IF a[2] = 0 THEN a
    ELSE IF b[2] = 0 THEN b
    ELSE Q(a[1] * (LCM(a[2], b[2]) \div a[2]) + b[1] * (LCM(a[2], b[2]) \div b[2]),
           LCM(a[2], b[2]))

\* a - b
QSub(a, b) == QAdd(a, QNeg(b))

\* a * b
QMul(a, b) ==
    IF IsNaN(a) \/ IsNaN(b) THEN QNaN
    ELSE IF a[2] = 0 \/ b[2] = 0 THEN <<Sign(a[1]) * Sign(b[1]), 0>>
    ELSE Q((a[1] \div GCD(Abs(a[1]), b[2])) * (b[1] \div GCD(Abs(b[1]), a[2])),
           (a[2] \div GCD(Abs(b[1]), a[2])) * (b[2] \div GCD(Abs(a[1]), b[2])))

\* a / b: x/0 is an infinity, 0/0 is NaN.
QDiv(a, b) ==
    IF IsNaN(a) \/ IsNaN(b) THEN QNaN
    ELSE IF b[2] = 0 THEN (IF a[2] = 0 THEN QNaN ELSE <<0, 1>>)
    ELSE IF b[1] = 0 THEN <<Sign(a[1]), 0>>
    ELSE QMul(a, Q(b[2], b[1]))

\* a < b: false when either is NaN.
QLess(a, b) ==
    IF IsNaN(a) \/ IsNaN(b) \/ a = b THEN FALSE
    ELSE IF a[2] = 0 THEN a[1] < 0
    ELSE IF b[2] = 0 THEN b[1] > 0
    ELSE a[1] * (LCM(a[2], b[2]) \div a[2]) < b[1] * (LCM(a[2], b[2]) \div b[2])

\* a === b
QEq(a, b) == ~IsNaN(a) /\ ~IsNaN(b) /\ a = b

-----------------------------------------------------------------------------
(* integral1.js: businessCategories, microMarketData, normalize,           *)
(* calculateScores, handleBusinessSelect (27-66, 88-142, 410-420)          *)

\* { talent, cost, procurement, timing } in hundredths.
Profile(talent, cost, procurement, timing) ==
    [kind |-> "profile", talent |-> Q(talent, 100), cost |-> Q(cost, 100),
     procurement |-> Q(procurement, 100), timing |-> Q(timing, 100)]

businessCategories ==
    [Grocery |-> Profile(20, 30, 35, 15),
     Restaurant |-> Profile(35, 20, 25, 20),
     Cafe |-> Profile(30, 25, 20, 25),
     Supermarket |-> Profile(20, 25, 40, 15),
     Pharmacy |-> Profile(25, 30, 35, 10),
     Gym |-> Profile(40, 25, 15, 20),
     Salon |-> Profile(40, 30, 15, 15),
     Spa |-> Profile(45, 25, 15, 15),
     Bakery |-> Profile(35, 25, 30, 10),
     Bookstore |-> Profile(25, 35, 25, 15),
     Hospital |-> Profile(45, 20, 25, 10),
     School |-> Profile(50, 30, 10, 10)]
    @@ ("Retail Store" :> Profile(25, 30, 30, 15))
    @@ ("Fitness Center" :> Profile(45, 25, 10, 20))
    @@ ("Electronics Store" :> Profile(30, 30, 30, 10))
    @@ ("Clothing Store" :> Profile(30, 30, 25, 15))
    @@ ("Medical Clinic" :> Profile(50, 25, 15, 10))

\* Object.keys(businessCategories)
ObjectKeys == DOMAIN businessCategories

\* The property names every object literal inherits from Object.prototype.
ObjectPrototype ==
    {"constructor", "toString", "toLocaleString", "valueOf", "hasOwnProperty",
     "isPrototypeOf", "propertyIsEnumerable", "__proto__"}

UNDEFINED == [kind |-> "undefined"]

\* businessCategories[businessType]: the profile of an own key, the
\* inherited member for a name of Object.prototype, undefined otherwise.
GetCategory(businessType) ==
    IF businessType \in ObjectKeys THEN businessCategories[businessType]
    ELSE IF businessType \in ObjectPrototype THEN [kind |-> "inherited"]
    ELSE UNDEFINED

\* weights.talent, weights.cost, ...: undefined (NaN in arithmetic) on a
\* value that is not a profile.
Weight(weights, f) == IF weights.kind = "profile" THEN weights[f] ELSE QNaN

\* A row of microMarketData.
Market(name, rent, vacancy, absorption, stock, metroDistanceKm, busDistanceKm, rating, college, corporate) ==
    [name |-> name, rent |-> rent, vacancy |-> vacancy, absorption |-> absorption,
     stock |-> stock, metroDistanceKm |-> metroDistanceKm,
     busDistanceKm |-> busDistanceKm, rating |-> rating, college |-> college,
     corporate |-> corporate]

\* The rows the market tables are made of: two rows with the same figures,
\* rows that share some figures with them, a rating above 4.7, a rating
\* of 4.7, and a row that differs from the first two by a higher rent and a
\* higher vacancy only.
MarketPool ==
    { Market("A", Q(1, 1), Q(1, 1), Q(1, 1), Q(1, 1), Q(1, 1), Q(1, 1), Q(9, 2), Q(4, 1), Q(5, 1)),
      Market("B", Q(1, 1), Q(1, 1), Q(1, 1), Q(1, 1), Q(1, 1), Q(1, 1), Q(9, 2), Q(4, 1), Q(5, 1)),
      Market("C", Q(3, 1), Q(2, 1), Q(1, 1), Q(2, 1), Q(2, 1), Q(1, 1), Q(19, 5), Q(5, 1), Q(4, 1)),
      Market("D", Q(2, 1), Q(3, 1), Q(2, 1), Q(1, 1), Q(1, 1), Q(3, 1), Q(5, 1), Q(1, 1), Q(1, 1)),
      Market("E", Q(5, 2), Q(1, 1), Q(3, 1), Q(3, 1), Q(3, 1), Q(2, 1), Q(47, 10), Q(3, 1), Q(3, 1)),
      Market("F", Q(2, 1), Q(3, 2), Q(1, 1), Q(1, 1), Q(1, 1), Q(1, 1), Q(9, 2), Q(4, 1), Q(5, 1)) }

\* The most rows of a market table.
MaxMarkets == 3

\* The market tables: up to MaxMarkets different rows in any order.
MarketTables ==
    {q \in SeqsUpTo(MarketPool, MaxMarkets) : \A i, j \in 1..Len(q) : q[i] = q[j] => i = j}

\* The names calculateScores is called with: keys of the table, a key in
\* another case, a name that is no key, names of Object.prototype.
BusinessInputs ==
    {"Grocery", "Medical Clinic", "grocery", "Florist", "toString", "constructor"}

RECURSIVE MathMinFrom(_, _, _)
\* Math.min(...values) from value i on, acc being the least so far.
MathMinFrom(values, i, acc) ==
    IF i > Len(values) THEN acc
    ELSE IF IsNaN(values[i]) \/ IsNaN(acc) THEN QNaN
    ELSE MathMinFrom(values, i + 1, IF QLess(values[i], acc) THEN values[i] ELSE acc)

RECURSIVE MathMaxFrom(_, _, _)
\* Math.max(...values) from value i on, acc being the greatest so far.
MathMaxFrom(values, i, acc) ==
    IF i > Len(values) THEN acc
    ELSE IF IsNaN(values[i]) \/ IsNaN(acc) THEN QNaN
    ELSE MathMaxFrom(values, i + 1, IF QLess(acc, values[i]) THEN values[i] ELSE acc)

MathMin(values) == MathMinFrom(values, 1, <<1, 0>>)
MathMax(values) == MathMaxFrom(values, 1, <<-1, 0>>)

\* table.map((m) => m[attr])
Column(table, attr) == [i \in 1..Len(table) |-> table[i][attr]]

\* The normalize variant without the max === min case.
normalize_noGuard(value, min, max, inverse) ==
    IF inverse THEN QSub(Q(1, 1), QDiv(QSub(value, min), QSub(max, min)))
    ELSE QDiv(QSub(value, min), QSub(max, min))

\* The normalize variant that ignores `inverse`.
normalize_direct(value, min, max, inverse) ==
    IF QEq(max, min) THEN Q(1, 2)
    ELSE QDiv(QSub(value, min), QSub(max, min))

\* const normalize = (value, min, max, inverse = false) => ...
normalize(value, min, max, inverse) ==
    IF QEq(max, min) THEN Q(1, 2)
    ELSE IF inverse THEN QSub(Q(1, 1), QDiv(QSub(value, min), QSub(max, min)))
    ELSE QDiv(QSub(value, min), QSub(max, min))

\* The normalize calls calculateScores makes for one market (113-130).
NormalizedMarket(market, table) ==
    [metroAccess |-> normalize(market.metroDistanceKm,
                               MathMin(Column(table, "metroDistanceKm")),
                               MathMax(Column(table, "metroDistanceKm")), TRUE),
     busAccess |-> normalize(market.busDistanceKm,
                             MathMin(Column(table, "busDistanceKm")),
                             MathMax(Column(table, "busDistanceKm")), TRUE),
     college |-> normalize(market.college, Q(1, 1), Q(5, 1), FALSE),
     rating |-> normalize(market.rating, Q(28, 10), Q(47, 10), FALSE),
     rent |-> normalize(market.rent, MathMin(Column(table, "rent")),
                        MathMax(Column(table, "rent")), TRUE),
     vacancy |-> normalize(market.vacancy, MathMin(Column(table, "vacancy")),
                           MathMax(Column(table, "vacancy")), TRUE),
     absorption |-> normalize(market.absorption, MathMin(Column(table, "absorption")),
                              MathMax(Column(table, "absorption")), FALSE),
     stock |-> normalize(market.stock, MathMin(Column(table, "stock")),
                         MathMax(Column(table, "stock")), FALSE),
     corporate |-> normalize(market.corporate, Q(1, 1), Q(5, 1), FALSE)]

\* table.map(market => the normalize results for it)
NormalizedTable(table) == [i \in 1..Len(table) |-> NormalizedMarket(table[i], table)]

\* The talentScore variant with the college and transit coefficients
\* exchanged.
talentScore_transitFirst(n, weights) ==
    QMul(QAdd(QAdd(QMul(n.college, Q(35, 100)),
                   QMul(QAdd(QMul(n.metroAccess, Q(6, 10)), QMul(n.busAccess, Q(4, 10))),
                        Q(45, 100))),
              QMul(n.rating, Q(2, 10))),
         Weight(weights, "talent"))

\* The four sub-scores (115-136).
talentScore(n, weights) ==
    QMul(QAdd(QAdd(QMul(n.college, Q(45, 100)),
                   QMul(QAdd(QMul(n.metroAccess, Q(6, 10)), QMul(n.busAccess, Q(4, 10))),
                        Q(35, 100))),
              QMul(n.rating, Q(2, 10))),
         Weight(weights, "talent"))
\* The costScore variant that takes the complement of the (already inverse)
\* rent and vacancy terms.
costScore_complement(n, weights) ==
    QMul(QAdd(QMul(QSub(Q(1, 1), n.rent), Q(7, 10)),
              QMul(QSub(Q(1, 1), n.vacancy), Q(3, 10))),
         Weight(weights, "cost"))
costScore(n, weights) ==
    QMul(QAdd(QMul(n.rent, Q(7, 10)), QMul(n.vacancy, Q(3, 10))),
         Weight(weights, "cost"))
procurementScore(n, weights) ==
    QMul(QAdd(QAdd(QMul(n.absorption, Q(4, 10)), QMul(n.stock, Q(3, 10))),
              QMul(n.corporate, Q(3, 10))),
         Weight(weights, "procurement"))
\* The timingScore variant that adds metroAccess and rating without halving
\* them.
timingScore_notHalved(n, weights) ==
    QMul(QAdd(n.metroAccess, n.rating), Weight(weights, "timing"))

timingScore(n, weights) ==
    QMul(QAdd(QMul(n.metroAccess, Q(5, 10)), QMul(n.rating, Q(5, 10))),
         Weight(weights, "timing"))

\* The totalScore variant that leaves the timing score out.
totalScore_noTiming(talent, cost, procurement, timing) ==
    QAdd(QAdd(talent, cost), procurement)

\* talentScore + costScore + procurementScore + timingScore
totalScore(talent, cost, procurement, timing) ==
    QAdd(QAdd(QAdd(talent, cost), procurement), timing)

\* { ...market, talentScore, ..., totalScore, normalizedScore } (138-140)
Scored(market, talent, cost, procurement, timing, total) ==
    [name |-> market.name, rent |-> market.rent, vacancy |-> market.vacancy,
     absorption |-> market.absorption, stock |-> market.stock,
     metroDistanceKm |-> market.metroDistanceKm,
     busDistanceKm |-> market.busDistanceKm, rating |-> market.rating,
     college |-> market.college, corporate |-> market.corporate,
     talentScore |-> talent, costScore |-> cost, procurementScore |-> procurement,
     timingScore |-> timing, totalScore |-> total,
     normalizedScore |-> QMul(total, Q(100, 1))]

\* The callback of microMarketData.map (112-141) for one market.
ScoredMarket(market, n, weights) ==
    Scored(market, talentScore(n, weights), costScore(n, weights),
           procurementScore(n, weights), timingScore(n, weights),
           totalScore(talentScore(n, weights), costScore(n, weights),
                      procurementScore(n, weights), timingScore(n, weights)))

\* A comparator whose direction depends on whether a call was made before:
\* descending in the first call, ascending in the later ones.
After_turnedByEarlierCall(a, b) ==
    IF scorePc = "ready"
    THEN QLess(Q(0, 1), QSub(b.totalScore, a.totalScore))
    ELSE QLess(Q(0, 1), QSub(a.totalScore, b.totalScore))

\* The comparator (a, b) => b.totalScore - a.totalScore says a goes after b:
\* its result is positive (NaN is not).
After(a, b) == QLess(Q(0, 1), QSub(b.totalScore, a.totalScore))

RECURSIVE InsertByScore_beforeTies(_, _, _)
\* The insertion that puts x before the elements it compares equal to.
InsertByScore_beforeTies(sorted, x, i) ==
    IF i > Len(sorted) THEN Append(sorted, x)
    ELSE IF ~After(x, sorted[i])
         THEN SubSeq(sorted, 1, i - 1) \o <<x>> \o SubSeq(sorted, i, Len(sorted))
         ELSE InsertByScore_beforeTies(sorted, x, i + 1)

RECURSIVE InsertByScore(_, _, _)
\* sorted with x put in from position i on: before the first element that
\* goes after x, after every element x compares equal to.
InsertByScore(sorted, x, i) ==
    IF i > Len(sorted) THEN Append(sorted, x)
    ELSE IF After(sorted[i], x)
         THEN SubSeq(sorted, 1, i - 1) \o <<x>> \o SubSeq(sorted, i, Len(sorted))
         ELSE InsertByScore(sorted, x, i + 1)

RECURSIVE SortFrom(_, _, _)
\* scoredMarkets.sort(comparator), a stable sort: the elements from i on put
\* one by one into the sorted ones.
SortFrom(scoredMarkets, i, sorted) ==
    IF i > Len(scoredMarkets) THEN sorted
    ELSE SortFrom(scoredMarkets, i + 1, InsertByScore(sorted, scoredMarkets[i], 1))

\* microMarketData.map(market => ...) given the normalize results.
ScoredMarkets(table, normalized, weights) ==
    [i \in 1..Len(table) |-> ScoredMarket(table[i], normalized[i], weights)]

\* const calculateScores = (businessType) => ..., over the table.
calculateScores(businessType, table) ==
    IF GetCategory(businessType).kind = "undefined" THEN NULL
    ELSE Arr(SortFrom(ScoredMarkets(table, NormalizedTable(table),
                                    GetCategory(businessType)), 1, <<>>))

\* microMarketData after a call in which line 141 sorts microMarketData
\* itself: its rows in the order of the returned list.
MarketsAfter_sortedInPlace(businessType, table) ==
    IF calculateScores(businessType, table) = NULL THEN table
    ELSE [k \in 1..Len(table) |->
            table[CHOOSE i \in 1..Len(table) :
                      table[i].name = calculateScores(businessType, table).items[k].name]]

\* microMarketData after a calculateScores call: the call only reads it
\* (map at 92-97 and 112, the spread at 138 copies each row) and sorts the
\* array that map returned (141).
MarketsAfter(businessType, table) == table

\* The normalize results of a calculateScores call: none when it returns
\* at line 90.
NormalizedBy(businessType, table) ==
    IF GetCategory(businessType).kind = "undefined" THEN <<>>
    ELSE NormalizedTable(table)

\* calculateScores is about to be called as a function, or the selection
\* screen of the component is up.
ScoreInit ==
    /\ microMarketData \in MarketTables
    /\ scorePc \in {"ready", "page"}
    /\ businessTypeArg = ""
    /\ normalizedValues = <<>>
    /\ scores = NULL
    /\ selectedBusiness = ""
    /\ analysisData = NULL
    /\ showMap = FALSE

\* The scorer's variables when the scorer is not modelled.
ScoreIdle ==
    /\ microMarketData = <<>>
    /\ scorePc = "idle"
    /\ businessTypeArg = ""
    /\ normalizedValues = <<>>
    /\ scores = NULL
    /\ selectedBusiness = ""
    /\ analysisData = NULL
    /\ showMap = FALSE

\* One call calculateScores(businessType).
CallCalculateScores ==
    /\ scorePc = "ready"
    /\ \E businessType \in BusinessInputs :
         /\ businessTypeArg' = businessType
         /\ normalizedValues' = NormalizedBy(businessType, microMarketData)
         /\ scores' = calculateScores(businessType, microMarketData)
         /\ microMarketData' = MarketsAfter(businessType, microMarketData)
    /\ scorePc' = "called"
    /\ UNCHANGED <<selectedBusiness, analysisData, showMap>>
    /\ UNCHANGED notScore

\* A second call calculateScores(businessType) with the argument of the
\* first.
RepeatCalculateScores ==
    /\ scorePc = "called"
    /\ normalizedValues' = NormalizedBy(businessTypeArg, microMarketData)
    /\ scores' = calculateScores(businessTypeArg, microMarketData)
    /\ microMarketData' = MarketsAfter(businessTypeArg, microMarketData)
    /\ scorePc' = "repeated"
    /\ UNCHANGED <<businessTypeArg, selectedBusiness, analysisData, showMap>>
    /\ UNCHANGED notScore

\* A click on a business button of the selection screen (456-457):
\* handleBusinessSelect(business); the map card is hidden there, so there
\* is no map to remove.
handleBusinessSelect ==
    /\ scorePc = "page"
    /\ selectedBusiness = ""
    /\ \E business \in ObjectKeys :
         /\ selectedBusiness' = business
         /\ analysisData' = calculateScores(business, microMarketData)
         /\ microMarketData' = MarketsAfter(business, microMarketData)
    /\ showMap' = FALSE
    /\ UNCHANGED <<scorePc, businessTypeArg, normalizedValues, scores>>
    /\ UNCHANGED notScore

\* A click on "Show Map" / "Hide Map" (476).
ToggleShowMap ==
    /\ scorePc = "page"
    /\ selectedBusiness # ""
    /\ analysisData # NULL
    /\ showMap' = ~showMap
    /\ UNCHANGED <<microMarketData, scorePc, businessTypeArg, normalizedValues,
                   scores, selectedBusiness, analysisData>>
    /\ UNCHANGED notScore

\* A click on "Change Business" (480).
ChangeBusiness ==
    /\ scorePc = "page"
    /\ selectedBusiness # ""
    /\ analysisData # NULL
    /\ selectedBusiness' = ""
    /\ analysisData' = NULL
    /\ showMap' = FALSE
    /\ UNCHANGED <<microMarketData, scorePc, businessTypeArg, normalizedValues, scores>>
    /\ UNCHANGED notScore

ScoreNext ==
    \/ CallCalculateScores
    \/ RepeatCalculateScores
    \/ handleBusinessSelect
    \/ ToggleShowMap
    \/ ChangeBusiness

-----------------------------------------------------------------------------
(* src/src/App.jsx: searchNearbyBusinesses (587-637)                       *)

\* The length of the longest business list drawn.
MaxBusinesses == 2

\* Whether c is a decimal digit, and the digit it stands for.
IsDigit(c) == c \in {"0", "1", "2", "3", "4", "5", "6", "7", "8", "9"}
DigitOf(c) == CHOOSE d \in 0..9 : DigitChar(d) = c

RECURSIVE DigitsPrefix(_, _)
\* The number written by the leading digits of s, after the digits of acc.
DigitsPrefix(s, acc) ==
    IF Len(s) = 0 \/ ~IsDigit(s[1]) THEN acc
    ELSE DigitsPrefix(Tail(s), 10 * acc + DigitOf(s[1]))

\* parseFloat(v) in whole degrees: a number is itself; of a string, the
\* leading blanks are skipped, then a sign and the leading digits are read,
\* anything after them is ignored; NaN for undefined and for a string that
\* does not start with a number.
parseFloat(v) ==
    IF v = NULL THEN NaN
    ELSE IF v.t = "number" THEN v.n
    ELSE LET s == TrimStart(v.s)
             signed == Len(s) > 0 /\ s[1] \in {"-", "+"}
             body == IF signed THEN Tail(s) ELSE s
         IN  IF Len(body) = 0 \/ ~IsDigit(body[1]) THEN NaN
             ELSE IF signed /\ s[1] = "-" THEN 0 - DigitsPrefix(body, 0)
             ELSE DigitsPrefix(body, 0)

RECURSIVE OrProps(_, _)
\* biz.k1 || biz.k2 || ... : the first truthy value, else the last one.
OrProps(biz, keys) ==
    LET v == PropLookup(biz, keys[1], 1)
    IN  IF Len(keys) = 1 \/ Truthy(v) THEN v ELSE OrProps(biz, Tail(keys))

\* parseFloat(biz.latitude || biz.lat), parseFloat(biz.longitude ||
\* biz.lng || biz.lon)
BizLat(biz) == parseFloat(OrProps(biz, <<"latitude", "lat">>))
BizLon(biz) == parseFloat(OrProps(biz, <<"longitude", "lng", "lon">>))

\* The filter callback without its radius check.
KeepBusiness_noRadius(biz, lat, lon) ==
    ~(BizLat(biz) \in {0, NaN} \/ BizLon(biz) \in {0, NaN})

\* The filter callback (616-624).
KeepBusiness(biz, lat, lon) ==
    IF BizLat(biz) \in {0, NaN} \/ BizLon(biz) \in {0, NaN} THEN FALSE
    ELSE Less(calculateDistance(lat, lon, BizLat(biz), BizLon(biz)), 5)

\* The map callback (624-628): the business with its realDistance.
WithRealDistance(biz, lat, lon) ==
    [biz |-> biz, realDistance |-> calculateDistance(lat, lon, BizLat(biz), BizLon(biz))]

\* allBusinesses.filter(...).map(...)
ValidBusinesses(all, lat, lon) ==
    LET kept == SelectSeq(all, LAMBDA biz : KeepBusiness(biz, lat, lon))
    IN  [i \in 1..Len(kept) |-> WithRealDistance(kept[i], lat, lon)]

\* if (result.data.side) allBusinesses.push(...result.data.side)
Side(list) == IF list = NULL THEN <<>> ELSE list.items

\* allBusinesses for a truthy result.data (605-613): the array itself, or
\* its north, south, east and west lists one after the other.
AllBusinesses(data) ==
    IF data.kind = "array" THEN data.items
    ELSE Side(data.north) \o Side(data.south) \o Side(data.east) \o Side(data.west)

\* searchNearbyBusinesses(lat, lon, type, locationName) for what the request
\* does: it throws, it answers with a non-OK status, or it answers OK with
\* result.data (NULL when falsy).
searchNearbyBusinesses(response, lat, lon) ==
    IF response.outcome # "ok" THEN <<>>
    ELSE IF response.data = NULL THEN <<>>
    ELSE ValidBusinesses(AllBusinesses(response.data), lat, lon)

\* Businesses as the service may describe them: coordinates as strings, as
\* numbers under the short keys, a zero latitude before a usable one, the
\* string "0", no coordinates, digits followed by other text, text only.
BusinessPool ==
    { <<Prop("latitude", StrVal(<<"1", "0">>)), Prop("longitude", StrVal(<<"7", "0">>))>>,
      <<Prop("lat", NumVal(20)), Prop("lng", NumVal(70))>>,
      <<Prop("latitude", NumVal(0)), Prop("lat", NumVal(10)), Prop("lon", NumVal(80))>>,
      <<Prop("latitude", StrVal(<<"0">>)), Prop("lat", NumVal(10)), Prop("longitude", NumVal(70))>>,
      <<Prop("name", StrVal(<<"M">>))>>,
      <<Prop("latitude", StrVal(<<" ", "2", "0", "N">>)), Prop("lon", StrVal(<<"8", "0", ".", "0">>))>>,
      <<Prop("latitude", StrVal(<<"N", "1">>)), Prop("longitude", NumVal(70))>> }

\* The business lists drawn.
BusinessLists == SeqsUpTo(BusinessPool, MaxBusinesses)

\* What the request may do: throw, answer with a non-OK status, answer OK
\* without data, with an array, or with lists by compass side.
Responses ==
    {[outcome |-> o, data |-> NULL] : o \in {"throw", "notok", "ok"}}
        \cup {[outcome |-> "ok", data |-> Arr(q)] : q \in BusinessLists}
        \cup {[outcome |-> "ok",
               data |-> [kind |-> "sides", north |-> n, south |-> NULL, east |-> e, west |-> NULL]] :
                  n, e \in {NULL} \cup {Arr(<<b>>) : b \in BusinessPool}}

SearchInit ==
    /\ bResponse \in Responses
    /\ bLat \in GridLat
    /\ bLon \in GridLng
    /\ bResult = <<>>
    /\ bPc = "ready"

\* The variables of the searchNearbyBusinesses call when no call is modelled.
SearchIdle ==
    /\ bResponse = NULL
    /\ bLat = 0
    /\ bLon = 0
    /\ bResult = <<>>
    /\ bPc = "idle"

\* One call await searchNearbyBusinesses(lat, lon, type, locationName).
CallSearchNearbyBusinesses ==
    /\ bPc = "ready"
    /\ bResult' = searchNearbyBusinesses(bResponse, bLat, bLon)
    /\ bPc' = "returned"
    /\ UNCHANGED <<bResponse, bLat, bLon>>
    /\ UNCHANGED notSearch

-----------------------------------------------------------------------------
(* integral1.js: the built-in market table (48-59) scored row by row       *)

\* const microMarketData = [ ... ]: the ten rows as written, each decimal as
\* its digits over a power of ten (name, rent, vacancy, absorption, stock,
\* metroDistanceKm, busDistanceKm, rating, college, corporate).
microMarketData_builtIn ==
    << Market("Delhi CBD (Connaught Place)", Q(28445, 100), Q(183, 10), Q(5, 100), Q(153, 100), Q(5, 10), Q(2, 10), Q(45, 10), Q(4, 1), Q(5, 1)),
       Market("Cyber City (Gurugram)", Q(1350, 10), Q(22, 10), Q(1, 10), Q(1399, 100), Q(12, 10), Q(6, 10), Q(47, 10), Q(3, 1), Q(5, 1)),
       Market("South-East Delhi (Nehru Place)", Q(1156, 10), Q(130, 10), Q(8, 100), Q(709, 100), Q(8, 10), Q(3, 10), Q(38, 10), Q(5, 1), Q(4, 1)),
       Market("Noida Expressway (Sect 125/135)", Q(750, 10), Q(120, 10), Q(85, 100), Q(105, 10), Q(40, 10), Q(25, 10), Q(35, 10), Q(4, 1), Q(4, 1)),
       Market("Golf Course Road (Gurugram)", Q(1105, 10), Q(115, 10), Q(35, 100), Q(55, 10), Q(20, 10), Q(8, 10), Q(45, 10), Q(2, 1), Q(5, 1)),
       Market("Sector 62 (Noida)", Q(855, 10), Q(160, 10), Q(45, 100), Q(45, 10), Q(32, 10), Q(10, 10), Q(41, 10), Q(5, 1), Q(3, 1)),
       Market("Sector 16 (Noida)", Q(990, 10), Q(105, 10), Q(1, 10), Q(20, 10), Q(11, 10), Q(4, 10), Q(40, 10), Q(5, 1), Q(3, 1)),
       Market("Sector 18 (Noida)", Q(1200, 10), Q(140, 10), Q(5, 100), Q(9, 10), Q(14, 10), Q(5, 10), Q(44, 10), Q(4, 1), Q(4, 1)),
       Market("Laxmi Nagar (East Delhi)", Q(820, 10), Q(90, 10), Q(15, 100), Q(7, 10), Q(6, 10), Q(2, 10), Q(37, 10), Q(5, 1), Q(2, 1)),
       Market("Central Noida (Sector 58/63)", Q(700, 10), Q(220, 10), Q(6, 10), Q(38, 10), Q(38, 10), Q(18, 10), Q(36, 10), Q(4, 1), Q(4, 1)) >>

\* The sub-scores the map callback (112-136) computes for one market of the
\* table under the weights of one category. totalScore is their sum (136);
\* its exact value has a denominator beyond the integers of the model, so it
\* is kept as its four terms.
SubScores(market, table, weights) ==
    [talentScore |-> talentScore(NormalizedMarket(market, table), weights),
     costScore |-> costScore(NormalizedMarket(market, table), weights),
     procurementScore |-> procurementScore(NormalizedMarket(market, table), weights),
     timingScore |-> timingScore(NormalizedMarket(market, table), weights)]

\* Every built-in category and every row of the built-in table.
RowInit ==
    /\ rowCategory \in ObjectKeys
    /\ rowIndex \in 1..Len(microMarketData_builtIn)
    /\ rowScores = NULL
    /\ rowPc = "ready"

\* The variables of the row-by-row scoring when it is not modelled.
RowIdle ==
    /\ rowCategory = ""
    /\ rowIndex = 0
    /\ rowScores = NULL
    /\ rowPc = "idle"

\* The map callback of calculateScores(rowCategory) run on one row.
ScoreBuiltInMarket ==
    /\ rowPc = "ready"
    /\ rowScores' = SubScores(microMarketData_builtIn[rowIndex], microMarketData_builtIn,
                              GetCategory(rowCategory))
    /\ rowPc' = "scored"
    /\ UNCHANGED <<rowCategory, rowIndex>>
    /\ UNCHANGED notRow

-----------------------------------------------------------------------------
(* Specifications                                                          *)

\* getNearest applied to drawn arguments.
InitNearest == NearestInit /\ ScriptIdle /\ IntegralIdle /\ ScoreIdle /\ FetchIdle /\ SearchIdle /\ RowIdle
SpecNearest == InitNearest /\ [][NearestNext]_vars

\* The page of script.js: loading, banner timers, pincode look-ups.
InitScript == ScriptInit /\ NearestIdle /\ IntegralIdle /\ ScoreIdle /\ FetchIdle /\ SearchIdle /\ RowIdle
SpecScript == InitScript /\ [][ScriptNext]_vars

\* The page of script.js with clearLast also called on its own.
NextOverlay == ScriptNext \/ ClearLast
SpecOverlay == InitScript /\ [][NextOverlay]_vars

\* The map card of integral1.js: loading, pincode look-ups, Clear.
InitIntegral == IntegralInit /\ NearestIdle /\ ScriptIdle /\ ScoreIdle /\ FetchIdle /\ SearchIdle /\ RowIdle
SpecIntegral == InitIntegral /\ [][IntegralNext]_vars

\* The two pincode look-ups, each program started on its own.
InitPincode == InitScript \/ InitIntegral
NextPincode == ScriptNext \/ IntegralNext
SpecPincode == InitPincode /\ [][NextPincode]_vars

\* The scorer: calculateScores as a function, and the selection screen.
InitScore == ScoreInit /\ NearestIdle /\ ScriptIdle /\ IntegralIdle /\ FetchIdle /\ SearchIdle /\ RowIdle
SpecScore == InitScore /\ [][ScoreNext]_vars

\* tryFetchAny applied to drawn fetch outcomes.
InitFetch == FetchInit /\ NearestIdle /\ ScriptIdle /\ IntegralIdle /\ ScoreIdle /\ SearchIdle /\ RowIdle
SpecFetch == InitFetch /\ [][CallTryFetchAny]_vars

\* searchNearbyBusinesses applied to drawn responses.
InitSearch == SearchInit /\ NearestIdle /\ ScriptIdle /\ IntegralIdle /\ ScoreIdle /\ FetchIdle /\ RowIdle
SpecSearch == InitSearch /\ [][CallSearchNearbyBusinesses]_vars

\* The built-in markets scored one by one for the built-in categories.
InitBuiltIn == RowInit /\ NearestIdle /\ ScriptIdle /\ IntegralIdle /\ ScoreIdle /\ FetchIdle /\ SearchIdle
SpecBuiltIn == InitBuiltIn /\ [][ScoreBuiltInMarket]_vars

\* The core functions, each called on its own: getNearest or the scorer.
InitCore == InitNearest \/ InitScore
NextCore == NearestNext \/ ScoreNext
SpecCore == InitCore /\ [][NextCore]_vars

-----------------------------------------------------------------------------
(* Claims about getNearest                                                 *)

\* Every candidate's distance to the reference is a number.
AllFinite(list, lat, lng) ==
    \A s \in Range(list) : distanceKm(lat, lng, s.lat, s.lng) # NaN

\* C1: for a non-empty candidate list with finite distances, getNearest
\* returns a member of the list, the returned distance_km is the distance of
\* the returned station, and it is <= the distance of every candidate.
C1_NearestIsMinimal ==
    (/\ nPc = "done"
     /\ nList # NULL
     /\ Len(nList.items) > 0
     /\ AllFinite(nList.items, nLat, nLng))
    => /\ nResult.kind = "found"
       /\ nResult.station \in Range(nList.items)
       /\ nResult.distance_km
            = distanceKm(nLat, nLng, nResult.station.lat, nResult.station.lng)
       /\ \A s \in Range(nList.items) :
            nResult.distance_km <= distanceKm(nLat, nLng, s.lat, s.lng)

\* C1 witness: a call on three candidates at three different finite
\* distances whose nearest is not the first of the list.
C1_Witness ==
    /\ nPc = "done"
    /\ nList # NULL
    /\ Len(nList.items) = 3
    /\ AllFinite(nList.items, nLat, nLng)
    /\ Cardinality({distanceKm(nLat, nLng, s.lat, s.lng) :
                        s \in Range(nList.items)}) = 3
    /\ nResult.kind = "found"
    /\ nResult.station # nList.items[1]

\* C2: getNearest on an empty or missing (null) candidate list returns null
\* and does not throw, whatever the reference point.
C2_EmptyListGivesNull ==
    (nPc = "done" /\ (nList = NULL \/ Len(nList.items) = 0)) => nResult = NULL

\* C2 witness: the call was made on a missing list.
C2_Witness == nPc = "done" /\ nList = NULL /\ nResult = NULL

\* The candidates of list at the least distance from the reference: their
\* places in the list.
Nearests(list, lat, lng) ==
    {i \in 1..Len(list) :
        /\ distanceKm(lat, lng, list[i].lat, list[i].lng) # NaN
        /\ \A j \in 1..Len(list) :
             ~Less(distanceKm(lat, lng, list[j].lat, list[j].lng),
                   distanceKm(lat, lng, list[i].lat, list[i].lng))}

\* C14: getNearest breaks ties by input order: when two or more candidates
\* are at the same minimal distance from the reference, the one that appears
\* first in the candidate list is returned.
C14_TieGoesToFirstInList ==
    (/\ nPc = "done"
     /\ nList # NULL
     /\ Cardinality(Nearests(nList.items, nLat, nLng)) >= 2)
    => /\ nResult.kind = "found"
       /\ \E i \in Nearests(nList.items, nLat, nLng) :
            /\ nResult.station = nList.items[i]
            /\ \A j \in Nearests(nList.items, nLat, nLng) : i <= j

\* C14 witness: two different stations at the same least distance, after a
\* candidate without a distance; the earlier of the two is returned.
C14_Witness ==
    /\ nPc = "done"
    /\ nList # NULL
    /\ Len(nList.items) = 3
    /\ Nearests(nList.items, nLat, nLng) = {2, 3}
    /\ nList.items[2] # nList.items[3]
    /\ nResult.kind = "found"
    /\ nResult.station = nList.items[2]

\* C20: distanceKm is symmetric: for all valid coordinate pairs a and b,
\* distanceKm(a, b) equals distanceKm(b, a) (within 1e-9; here: to the
\* model's last digit), in the haversine function of script.js and
\* integral1.js and in calculateDistance of App.jsx.
C20_DistanceSymmetric ==
    (/\ nPc = "measured"
     /\ NaN \notin {nList.items[1].lat, nList.items[1].lng})
    => /\ nResult.forth = nResult.back
       /\ nResult.appForth = nResult.appBack
       /\ nResult.forth # NaN
       /\ nResult.appForth # NaN

\* C20 witness: the distances both ways between two points that differ in
\* latitude and in longitude, more than 1000 km apart.
C20_Witness ==
    /\ nPc = "measured"
    /\ NaN \notin {nList.items[1].lat, nList.items[1].lng}
    /\ nList.items[1].lat # nLat
    /\ nList.items[1].lng # nLng
    /\ nResult.forth > 1000
    /\ nResult.appForth > 1000

-----------------------------------------------------------------------------
(* Claims about the pincode finder                                         *)

\* Whether p occurs in v: some stretch of v is p.
Occurs(p, v) ==
    \E i \in 0..(Len(v) - Len(p)) : SubSeq(v, i + 1, i + Len(p)) = p

\* Some attribute value of the feature, converted to a string and trimmed,
\* equals p or contains p.
AttributeMatches(feature, p) ==
    \E k \in 1..Len(feature.properties) :
        LET v == Trim(String(feature.properties[k].value))
        IN  v = p \/ Occurs(p, v)

\* Some attribute value of the feature, converted to a string, contains p.
AttributeContains(feature, p) ==
    \E k \in 1..Len(feature.properties) :
        Occurs(p, String(feature.properties[k].value))

\* The last analyzeUserPincode call of script.js searched the pincode
\* layer / found a polygon (and fitted the map to it).
ScriptSearched == Len(trace) >= 3 /\ trace[2] = "findPolygonForPincode"
ScriptFound == ScriptSearched /\ trace[3] = "fitBounds"

\* The last analyzePincode call of integral1.js searched the features /
\* found one (and fitted the map to it).
CardSearched == \E k \in 1..Len(steps) : steps[k] = "find"
CardFound == CardSearched /\ \E k \in 1..Len(steps) : steps[k] = "fitBounds"

\* C3: when several polygons match the searched pincode, the polygon found
\* is the first matching one in iteration order, in script.js and in
\* integral1.js: no polygon before the one found matches.
C3_FirstMatchReturned ==
    /\ ScriptFound =>
         \A i \in 1..(mapView - 1) :
             ~AttributeMatches(delhiPincodeLayer.layers[i].feature, pincodeArg.s)
    /\ CardFound =>
         \A i \in 1..(fitted - 1) :
             ~AttributeMatches(pincodeGeo.features[i], analyzedPincode.s)

\* C4: a polygon matches a pincode if and only if one of its attribute
\* values, converted to a string and trimmed, equals the pincode or contains
\* it: a search finds a polygon exactly when some polygon has such an
\* attribute, and the polygon found has one.
C4_MatchIffAttributeEqualsOrContains ==
    /\ ScriptSearched =>
         LET layers == delhiPincodeLayer.layers
             p == pincodeArg.s
         IN  /\ ScriptFound <=>
                  \E i \in 1..Len(layers) : AttributeMatches(layers[i].feature, p)
             /\ ScriptFound => AttributeMatches(layers[mapView].feature, p)
    /\ CardSearched =>
         LET features == pincodeGeo.features
             p == analyzedPincode.s
         IN  /\ CardFound <=>
                  \E i \in 1..Len(features) : AttributeMatches(features[i], p)
             /\ CardFound => AttributeMatches(features[fitted], p)

\* C4 witness: a search for "11" found the polygon whose only matching
\* attribute is an address that embeds "11".
C4_Witness ==
    /\ ScriptFound
    /\ pincodeArg.s = <<"1", "1">>
    /\ delhiPincodeLayer.layers[mapView].feature = PolyAddress11

\* C5: when no polygon has an attribute value containing the pincode, the
\* search ends with the 'pincode not found' alert: the steps of the call are
\* the look-up and the alert only (no centroid, no nearest-facility search,
\* no second look-up).
C5_NotFoundEndsWithMessage ==
    /\ (/\ ScriptSearched
        /\ \A i \in 1..Len(delhiPincodeLayer.layers) :
               ~AttributeContains(delhiPincodeLayer.layers[i].feature, pincodeArg.s))
       => /\ trace = <<"analyzeUserPincode", "findPolygonForPincode", "alert">>
          /\ lastAlert = Alert("Pincode not found in dataset", NULL, NULL)
    /\ (/\ CardSearched
        /\ \A i \in 1..Len(pincodeGeo.features) :
               ~AttributeContains(pincodeGeo.features[i], analyzedPincode.s))
       => /\ steps = <<"analyzePincode", "find", "alert">>
          /\ shownAlert = Alert("Pincode not found in pincode GeoJSON", NULL, NULL)

\* C5 witness: script.js searched a non-empty pincode layer for "9" and
\* found nothing.
C5_Witness ==
    /\ ScriptSearched
    /\ pincodeArg.s = <<"9">>
    /\ Len(delhiPincodeLayer.layers) = MaxPolygons
    /\ lastAlert = Alert("Pincode not found in dataset", NULL, NULL)

\* The alert's text for one category names a station of the list at the
\* least distance from (lat, lng) with that distance, and the station's
\* marker is among the layers.
ReportsNearest(text, what, list, lat, lng, layers) ==
    /\ text # NULL
    /\ \E s \in Range(list) :
         /\ text.name = s.name
         /\ text.km = distanceKm(lat, lng, s.lat, s.lng)
         /\ text.km # NaN
         /\ \A t \in Range(list) : ~Less(distanceKm(lat, lng, t.lat, t.lng), text.km)
         /\ OverlayLayer("marker", what, <<s.lat, s.lng>>, <<s.lat, s.lng>>) \in Range(layers)

\* The text of the alert for an empty category is the 'none' one and no
\* layer is drawn for the category.
ReportsNone(text, what, layers) ==
    /\ text = NULL
    /\ \A k \in 1..Len(layers) : layers[k].what # what

\* Some station of the list has a distance from (lat, lng).
HasNearest(list, lat, lng) ==
    \E s \in Range(list) : distanceKm(lat, lng, s.lat, s.lng) # NaN

\* With the metro list or the bus list empty, the analysis ended with the
\* result alert, 'none' for each empty category, the nearest station of the
\* other one, and the centroid marker on the map.
CompletesWithNone(alert, layers, onMap, metro, bus, centroid) ==
    (metro = <<>> \/ bus = <<>>) =>
        /\ alert.msg = "Pincode result"
        /\ Len(layers) >= 1
        /\ layers[1] = OverlayLayer("circleMarker", "centroid",
                                    <<centroid[2], centroid[1]>>, <<centroid[2], centroid[1]>>)
        /\ Range(layers) \subseteq onMap
        /\ metro = <<>> => ReportsNone(alert.metro, "metro", layers)
        /\ bus = <<>> => ReportsNone(alert.bus, "bus", layers)
        /\ (metro = <<>> /\ HasNearest(bus, centroid[2], centroid[1]))
             => ReportsNearest(alert.bus, "bus", bus, centroid[2], centroid[1], layers)
        /\ (bus = <<>> /\ HasNearest(metro, centroid[2], centroid[1]))
             => ReportsNearest(alert.metro, "metro", metro, centroid[2], centroid[1], layers)

\* A step of analyzeUserPincode (script.js) that found the polygon, with
\* turf loaded; a step of analyzePincode (integral1.js) that found the
\* feature and drew its result.
ScriptAnalysisFound ==
    /\ loadPc' = loadPc
    /\ results' = results
    /\ banner' = banner
    /\ bannerTimers' = bannerTimers
    /\ turfLoaded
    /\ ScriptFound'
CardAnalysisFound ==
    /\ loads' = loads
    /\ geoLoaded
    /\ lastLayersRef' # <<>>
    /\ CardFound'

\* C15: when the pincode is found but no facility of one category is
\* loaded, the analysis is not treated as a failure: it ends with the result
\* alert, which says 'No metro detected' / 'none' for that category and names
\* the nearest facility of the other category, and the centroid marker is
\* drawn; in script.js and in integral1.js.
C15_EmptyCategoryReportsNone ==
    [][/\ ScriptAnalysisFound =>
            CompletesWithNone(lastAlert', lastLayers', overlay', metroStations, busStops,
                              TurfCentroid(delhiPincodeLayer.layers[mapView'].feature))
       /\ CardAnalysisFound =>
            CompletesWithNone(shownAlert', lastLayersRef', mapOverlay',
                              metroStationsState, busStopsState,
                              TurfCentroid(pincodeGeo.features[fitted']))]_vars

\* C15 witness: script.js has loaded bus stops and no metro station, found
\* the polygon of the pincode, and alerted the result with no metro and the
\* nearest bus stop.
C15_Witness ==
    /\ ScriptFound
    /\ loadPc = "done"
    /\ metroStations = <<>>
    /\ Len(busStops) >= 1
    /\ Len(lastLayers) = 3
    /\ lastAlert = Alert("Pincode result", NULL,
                         [name |-> busStops[1].name,
                          km |-> distanceKm(lastLayers[1].at[1], lastLayers[1].at[2],
                                            busStops[1].lat, busStops[1].lng)])

\* Some attribute value of the feature, lower-cased, contains the keyword.
ValueMentions(f, keyword) ==
    \E k \in 1..Len(f.properties) :
        Occurs(keyword, ToLowerCase(String(f.properties[k].value)))

\* The attribute values of the feature written one after the other with
\* nothing in between, lower-cased, contain the keyword.
RECURSIVE Concatenation(_, _)
Concatenation(props, i) ==
    IF i > Len(props) THEN <<>>
    ELSE String(props[i].value) \o Concatenation(props, i + 1)
ConcatenationMentions(f, keyword) ==
    Occurs(keyword, ToLowerCase(Concatenation(f.properties, 1)))

\* The <<lat, lng>> of the stations of a list, in order.
StationPlaces(stations) ==
    [i \in 1..Len(stations) |-> <<stations[i].lat, stations[i].lng>>]

\* The <<lat, lng>> of the point features whose joined values (each value
\* apart) / whose concatenated values mention the keyword, in file order.
PointsMentioning(features, keyword) ==
    LET Test(f) == f.geometry.type = "Point" /\ ValueMentions(f, keyword)
        chosen == SelectSeq(features, Test)
    IN  [i \in 1..Len(chosen) |->
            <<chosen[i].geometry.coordinates[2], chosen[i].geometry.coordinates[1]>>]
PointsConcatMentioning(features, keyword) ==
    LET Test(f) == f.geometry.type = "Point" /\ ConcatenationMentions(f, keyword)
        chosen == SelectSeq(features, Test)
    IN  [i \in 1..Len(chosen) |->
            <<chosen[i].geometry.coordinates[2], chosen[i].geometry.coordinates[1]>>]

Metro == <<"m", "e", "t", "r", "o">>
Bus == <<"b", "u", "s">>

\* C17 as stated: a point feature is put in the metro list if and only if
\* the lower-cased concatenation of all its attribute values contains
\* 'metro', and in the bus list if and only if it contains 'bus'.
C17_ClassifiedByConcatenation ==
    /\ loadPc = "done" =>
         /\ StationPlaces(metroStations) = PointsConcatMentioning(results.points, Metro)
         /\ StationPlaces(busStops) = PointsConcatMentioning(results.points, Bus)
    /\ (metroStationsState # <<>> \/ busStopsState # <<>>) =>
         /\ StationPlaces(metroStationsState) = PointsConcatMentioning(srvPointsFile, Metro)
         /\ StationPlaces(busStopsState) = PointsConcatMentioning(srvPointsFile, Bus)

\* C17, amended: a point feature is put in the metro list if and only if
\* its attribute values, joined by single blanks and lower-cased, contain
\* 'metro' (so the keyword lies inside one value), and in the bus list if
\* and only if they contain 'bus'; case-insensitive, substring not whole
\* word, the two tests independent, so a feature may be in both lists. In
\* script.js after the load, in integral1.js whenever a load has detected
\* a station.
C17_ClassifiedByJoinedValues ==
    /\ loadPc = "done" =>
         /\ StationPlaces(metroStations) = PointsMentioning(results.points, Metro)
         /\ StationPlaces(busStops) = PointsMentioning(results.points, Bus)
    /\ (metroStationsState # <<>> \/ busStopsState # <<>>) =>
         /\ StationPlaces(metroStationsState) = PointsMentioning(srvPointsFile, Metro)
         /\ StationPlaces(busStopsState) = PointsMentioning(srvPointsFile, Bus)

\* C17 witness: script.js has loaded the points file of a metro station
\* and a point that mentions both keywords; the point is in both lists.
C17_Witness ==
    /\ loadPc = "done"
    /\ results.points = <<PointMetroA, PointBusMetro>>
    /\ StationPlaces(metroStations) = <<<<0, 70>>, <<10, 80>>>>
    /\ StationPlaces(busStops) = <<<<10, 80>>>>

\* The sum of coordinate c over the vertices of rings k.. (a ring's closing
\* position is its first vertex again and is not counted), and their number.
RECURSIVE VertexSum(_, _, _)
VertexSum(rings, k, c) ==
    IF k > Len(rings) THEN 0
    ELSE LET ring == rings[k]
             Partial[j \in 0..(Len(ring) - 1)] ==
                 IF j = 0 THEN 0 ELSE Partial[j - 1] + ring[j][c]
         IN  Partial[Len(ring) - 1] + VertexSum(rings, k + 1, c)
RECURSIVE VertexCount(_, _)
VertexCount(rings, k) ==
    IF k > Len(rings) THEN 0
    ELSE (Len(rings[k]) - 1) + VertexCount(rings, k + 1)

\* <<lat, lng>> of the mean of the vertices of the given rings.
VertexMean(rings) ==
    <<Div(VertexSum(rings, 1, 2), VertexCount(rings, 1)),
      Div(VertexSum(rings, 1, 1), VertexCount(rings, 1))>>

\* The square with corners (0,0), (0,2), (2,2), (2,0).
Square ==
    [properties |-> <<>>,
     rings |-> << << <<0, 0>>, <<0, 2>>, <<2, 2>>, <<2, 0>>, <<0, 0>> >> >>]

\* The last look-up of script.js / integral1.js drew its result and the
\* layers it drew are still kept.
ScriptDrew == ScriptFound /\ Len(trace) = 9
CardDrew == CardFound /\ Len(lastLayersRef) >= 1

-----------------------------------------------------------------------------
(* Claims about the scorer                                                 *)

\* The place of the market called name in the table.
PlaceOf(name, table) == CHOOSE k \in 1..Len(table) : table[k].name = name

\* list holds the markets of table, no market before one of higher
\* totalScore, markets of equal totalScore in the order of table.
SortedStable(list, table) ==
    /\ Len(list) = Len(table)
    /\ {list[i].name : i \in 1..Len(list)} = {table[i].name : i \in 1..Len(table)}
    /\ \A i, j \in 1..Len(list) :
         i < j =>
           /\ ~QLess(list[i].totalScore, list[j].totalScore)
           /\ QEq(list[i].totalScore, list[j].totalScore)
                => PlaceOf(list[i].name, table) < PlaceOf(list[j].name, table)

\* C6: calculateScores returns the markets in descending order of
\* totalScore, markets of equal totalScore in their order in the market
\* table; so does the list handleBusinessSelect stores.
C6_SortedDescendingStable ==
    /\ scores # NULL => SortedStable(scores.items, microMarketData)
    /\ analysisData # NULL => SortedStable(analysisData.items, microMarketData)

\* C6 witness: a call for a category of the table returned a list with two
\* markets of equal totalScore, in another order than the table's.
C6_Witness ==
    /\ scorePc = "called"
    /\ businessTypeArg \in ObjectKeys
    /\ scores # NULL
    /\ \E i, j \in 1..Len(scores.items) :
         i < j /\ QEq(scores.items[i].totalScore, scores.items[j].totalScore)
    /\ \E k \in 1..Len(scores.items) : scores.items[k].name # microMarketData[k].name

\* C7: calculateScores called with a name that is not a key of
\* businessCategories fails and returns no list.
C7_UnknownCategoryGivesNoList ==
    (scorePc = "called" /\ businessTypeArg \notin ObjectKeys) => scores = NULL

\* x lies in [0, 1].
InUnitInterval(x) == ~IsNaN(x) /\ ~QLess(x, Q(0, 1)) /\ ~QLess(Q(1, 1), x)

\* The normalize results calculateScores works with.
NormalizedFields ==
    {"metroAccess", "busAccess", "college", "rating", "rent", "vacancy",
     "absorption", "stock", "corporate"}

TableAttributes ==
    {"rent", "vacancy", "absorption", "stock", "metroDistanceKm", "busDistanceKm"}
InverseAttributes == {"rent", "vacancy", "metroDistanceKm", "busDistanceKm"}
FieldOf(attr) ==
    CASE attr = "metroDistanceKm" -> "metroAccess"
      [] attr = "busDistanceKm" -> "busAccess"
      [] OTHER -> attr

\* All markets of the table have the same value for attr.
Uniform(table, attr) == \A i, j \in 1..Len(table) : table[i][attr] = table[j][attr]

\* C9: when all markets share the value of an attribute, normalize returns
\* exactly 1/2 for every market for that attribute, direct or inverse.
C9_UniformAttributeGivesHalf ==
    \A attr \in TableAttributes :
        Uniform(microMarketData, attr) =>
            \A i \in 1..Len(normalizedValues) :
                normalizedValues[i][FieldOf(attr)] = <<1, 2>>

\* C9 witness: a call over a table of several markets that share their
\* absorption (direct) and their bus distance (inverse) but not their rent.
C9_Witness ==
    /\ scorePc = "called"
    /\ Len(normalizedValues) >= 2
    /\ Uniform(microMarketData, "absorption")
    /\ Uniform(microMarketData, "busDistanceKm")
    /\ ~Uniform(microMarketData, "rent")

\* The least / greatest value of attr in the table.
Least(table, attr) ==
    CHOOSE v \in {table[i][attr] : i \in 1..Len(table)} :
        \A i \in 1..Len(table) : ~QLess(table[i][attr], v)
Greatest(table, attr) ==
    CHOOSE v \in {table[i][attr] : i \in 1..Len(table)} :
        \A i \in 1..Len(table) : ~QLess(v, table[i][attr])

\* The min-max normalized value of v between lo and hi.
MinMax(v, lo, hi) ==
    IF lo = hi THEN <<1, 2>> ELSE QDiv(QSub(v, lo), QSub(hi, lo))

\* C10: for rent, vacancy, metro distance and bus distance the scorer uses
\* 1 minus the min-max normalized value (the table minimum scores 1, the
\* table maximum 0); for absorption and stock it uses the normalized value.
C10_InverseAttributesUseComplement ==
    \A i \in 1..Len(normalizedValues) :
        \A attr \in TableAttributes :
            LET v == microMarketData[i][attr]
                lo == Least(microMarketData, attr)
                hi == Greatest(microMarketData, attr)
                n == normalizedValues[i][FieldOf(attr)]
            IN  IF attr \in InverseAttributes
                THEN /\ n = QSub(<<1, 1>>, MinMax(v, lo, hi))
                     /\ (lo # hi /\ v = lo) => n = <<1, 1>>
                     /\ (lo # hi /\ v = hi) => n = <<0, 1>>
                ELSE n = MinMax(v, lo, hi)

\* C10 witness: a call over a table where rent and absorption vary, one
\* market having the least rent and the greatest absorption.
C10_Witness ==
    /\ scorePc = "called"
    /\ ~Uniform(microMarketData, "rent")
    /\ ~Uniform(microMarketData, "absorption")
    /\ \E i \in 1..Len(normalizedValues) :
         /\ microMarketData[i].rent = Least(microMarketData, "rent")
         /\ microMarketData[i].absorption = Greatest(microMarketData, "absorption")
         /\ normalizedValues[i].rent = <<1, 1>>
         /\ normalizedValues[i].absorption = <<1, 1>>

\* The weighted sum of the terms <<coefficient in hundredths, value>>, times w.
RECURSIVE SumTerms(_, _)
SumTerms(terms, i) ==
    IF i > Len(terms) THEN <<0, 1>>
    ELSE QAdd(QMul(Q(terms[i][1], 100), terms[i][2]), SumTerms(terms, i + 1))
Combination(terms, w) == QMul(SumTerms(terms, 1), w)

\* The scored market x has the four sub-scores the linear combinations of
\* the normalized attributes n give under the weights w.
SubScoresAre(x, n, w) ==
    /\ x.talentScore
         = Combination(<< <<45, n.college>>,
                          <<35, QAdd(QMul(Q(6, 10), n.metroAccess),
                                     QMul(Q(4, 10), n.busAccess))>>,
                          <<20, n.rating>> >>, w.talent)
    /\ x.costScore = Combination(<< <<70, n.rent>>, <<30, n.vacancy>> >>, w.cost)
    /\ x.procurementScore
         = Combination(<< <<40, n.absorption>>, <<30, n.stock>>,
                          <<30, n.corporate>> >>, w.procurement)
    /\ x.timingScore
         = Combination(<< <<50, n.metroAccess>>, <<50, n.rating>> >>, w.timing)

\* C11: for every market and category of the table, the four sub-scores of
\* the scored market are the fixed linear combinations of its normalized
\* attributes times the category weight: talent = (0.45 college + 0.35 (0.6
\* metroAccess + 0.4 busAccess) + 0.20 rating) w.talent, cost = (0.7 rent +
\* 0.3 vacancy) w.cost, procurement = (0.4 absorption + 0.3 stock + 0.3
\* corporate) w.procurement, timing = (0.5 metroAccess + 0.5 rating) w.timing.
C11_SubScoresAreLinearCombinations ==
    (scorePc = "called" /\ businessTypeArg \in ObjectKeys) =>
        \A k \in 1..Len(scores.items) :
            SubScoresAre(scores.items[k],
                         normalizedValues[PlaceOf(scores.items[k].name, microMarketData)],
                         businessCategories[businessTypeArg])

\* C11 witness: a call for Grocery over three markets whose scored list holds
\* a market with college, transit and rating terms all different, and four
\* sub-scores that are all different and not zero.
C11_Witness ==
    /\ scorePc = "called"
    /\ businessTypeArg = "Grocery"
    /\ Len(scores.items) = MaxMarkets
    /\ \E k \in 1..Len(scores.items) :
         LET x == scores.items[k]
             n == normalizedValues[PlaceOf(x.name, microMarketData)]
         IN  /\ Cardinality({n.college, n.metroAccess, n.busAccess, n.rating}) = 4
             /\ Cardinality({x.talentScore, x.costScore, x.procurementScore,
                             x.timingScore, <<0, 1>>}) = 5

\* The scored market's totalScore is the sum of its four sub-scores and its
\* normalizedScore is 100 times its totalScore.
TotalsAre(x) ==
    /\ x.totalScore
         = QAdd(QAdd(x.talentScore, x.costScore), QAdd(x.procurementScore, x.timingScore))
    /\ x.normalizedScore = QMul(Q(100, 1), x.totalScore)

\* C12: every scored market calculateScores returns (to a caller, or to
\* handleBusinessSelect) has totalScore = talentScore + costScore +
\* procurementScore + timingScore and normalizedScore = totalScore * 100.
C12_TotalIsSumOfSubScores ==
    /\ scores # NULL => \A k \in 1..Len(scores.items) : TotalsAre(scores.items[k])
    /\ analysisData # NULL =>
         \A k \in 1..Len(analysisData.items) : TotalsAre(analysisData.items[k])

\* C12 witness: a call for Medical Clinic returned three markets of three
\* different totalScores, each with a timing score that is not zero.
C12_Witness ==
    /\ scorePc = "called"
    /\ businessTypeArg = "Medical Clinic"
    /\ Len(scores.items) = MaxMarkets
    /\ Cardinality({scores.items[k].totalScore : k \in 1..Len(scores.items)}) = MaxMarkets
    /\ \A k \in 1..Len(scores.items) :
         /\ QLess(<<0, 1>>, scores.items[k].timingScore)
         /\ QLess(scores.items[k].timingScore, scores.items[k].totalScore)

\* Markets a and b have the same figures except that a has the strictly
\* lower rent and the strictly lower vacancy.
CheaperTwin(a, b) ==
    /\ QLess(a.rent, b.rent)
    /\ QLess(a.vacancy, b.vacancy)
    /\ \A f \in {"absorption", "stock", "metroDistanceKm", "busDistanceKm",
                  "rating", "college", "corporate"} : a[f] = b[f]

\* In the scored list, every market goes before and scores strictly higher
\* than the markets it is the cheaper twin of.
CheaperTwinsFirst(list) ==
    \A i, j \in 1..Len(list) :
        CheaperTwin(list[i], list[j]) =>
            /\ QLess(list[j].totalScore, list[i].totalScore)
            /\ i < j

\* C13: for a category with cost weight > 0 and two markets equal in every
\* attribute except that A has strictly lower rent and strictly lower
\* vacancy than B, A's totalScore is strictly greater than B's and A is
\* ranked before B in the result.
C13_LowerRentAndVacancyRanksFirst ==
    /\ (/\ scorePc = "called"
        /\ businessTypeArg \in ObjectKeys
        /\ QLess(<<0, 1>>, businessCategories[businessTypeArg].cost))
       => CheaperTwinsFirst(scores.items)
    /\ (/\ analysisData # NULL
        /\ QLess(<<0, 1>>, businessCategories[selectedBusiness].cost))
       => CheaperTwinsFirst(analysisData.items)

\* C13 witness: a call for a category over a table that lists the dearer
\* market before its cheaper twin, with a third market of higher rent still;
\* the result lists the cheaper twin before the dearer one.
C13_Witness ==
    /\ scorePc = "called"
    /\ businessTypeArg \in ObjectKeys
    /\ Len(microMarketData) = 3
    /\ \E i, j \in 1..3 :
         /\ i < j
         /\ CheaperTwin(microMarketData[j], microMarketData[i])
         /\ PlaceOf(microMarketData[j].name, scores.items)
              < PlaceOf(microMarketData[i].name, scores.items)
         /\ \E k \in 1..3 :
              /\ QLess(microMarketData[i].rent, microMarketData[k].rent)
              /\ ~Uniform(microMarketData, "rating")

-----------------------------------------------------------------------------
(* Claims about loading and drawing                                        *)

\* The candidate paths whose fetch answers OK with JSON that parses.
OkPaths == {i \in 1..Len(fOutcomes) : fOutcomes[i] = "ok"}

\* C21: tryFetchAny tries data/<filename> and then <filename>: it returns
\* the JSON of the first path whose fetch is OK and parses, having moved past
\* every path that answered with a non-OK status or threw, and it returns
\* null exactly when every candidate path failed.
C21_FirstOkPathReturned ==
    fPc = "returned" =>
        IF OkPaths = {} THEN fResult = NULL
        ELSE /\ fResult # NULL
             /\ fResult.json = fJson
             /\ fResult.path \in OkPaths
             /\ \A i \in OkPaths : fResult.path <= i
             /\ PATH_CANDIDATES[1] = "data/<filename>"

\* The fetch of data/<filename> throws, <filename> is served.
C21_Witness ==
    /\ fPc = "returned"
    /\ fOutcomes = <<"throw", "ok">>
    /\ fResult # NULL
    /\ fResult.path = 2
    /\ fJson # <<>>

\* The outline analyzePincode draws for the feature the map is fitted to.
PolygonOutline(stamp) == OverlayLayer("polygon", "pincode", <<stamp, stamp>>, <<stamp, stamp>>)

\* C22: after a successful analyzePincode of integral1.js the outline of the
\* matched pincode polygon is on the map, together with the centroid marker
\* and the facility markers and lines of lastLayersRef.
C22_PolygonOutlineOnMap ==
    [][CardAnalysisFound =>
          /\ PolygonOutline(fitted') \in mapOverlay'
          /\ Range(lastLayersRef') \subseteq mapOverlay'
          /\ lastLayersRef'[1].type = "circleMarker"]_vars

\* C23: every business searchNearbyBusinesses returns has parseable non-zero
\* latitude and longitude, lies strictly less than 5 km from the searched
\* coordinates, and carries that distance as realDistance; when the request
\* fails or throws the result is the empty list.
C23_ReturnedBusinessesAreNear ==
    bPc = "returned" =>
        /\ \A i \in 1..Len(bResult) :
             LET b == bResult[i]
                 lat == BizLat(b.biz)
                 lon == BizLon(b.biz)
             IN  /\ lat \notin {NaN, 0}
                 /\ lon \notin {NaN, 0}
                 /\ calculateDistance(bLat, bLon, lat, lon) # NaN
                 /\ calculateDistance(bLat, bLon, lat, lon) < 5
                 /\ b.realDistance = calculateDistance(bLat, bLon, lat, lon)
                 /\ b.biz \in Range(AllBusinesses(bResponse.data))
        /\ bResponse.outcome \in {"throw", "notok"} => bResult = <<>>

\* Of two businesses with usable coordinates, the one at the searched point
\* is returned and the one 10 degrees north of it is not.
C23_Witness ==
    /\ bPc = "returned"
    /\ bResponse.outcome = "ok"
    /\ bResponse.data # NULL
    /\ Len(AllBusinesses(bResponse.data)) = 2
    /\ \A i \in 1..2 : KeepBusiness_noRadius(AllBusinesses(bResponse.data)[i], bLat, bLon)
    /\ Len(bResult) = 1
    /\ bResult[1].realDistance = 0

\* A step in which a loadGeoJSONsForTransit call that analyzePincode awaits
\* ends, having fetched the pincode file, and analyzePincode goes on.
AwaitedLoadSucceeds ==
    /\ \E i \in 1..Len(loads) : loads' = RemoveAt(loads, i)
    /\ \A i \in 1..Len(loads) :
         loads' = RemoveAt(loads, i) =>
             /\ loads[i].stage = "points"
             /\ loads[i].waiter # NULL
             /\ loads[i].p # NULL
    /\ pincodeGeo' # NULL

\* C24: an analyzePincode call made before the data is loaded awaits the
\* load and then analyses against the freshly loaded data: when the load
\* succeeded, the call goes on to search the pincode features and does not
\* end with the 'Pincode GeoJSON not found' alert.
C24_AwaitingCallUsesLoadedData ==
    [][AwaitedLoadSucceeds =>
          /\ shownAlert'.msg # "Pincode GeoJSON not found"
          /\ \E k \in 1..Len(steps') : steps'[k] = "find"]_vars

\* Whether lastLayers is what one analysis of pincode layer i draws: the
\* centroid marker, then marker and line for the nearest metro station if
\* there is one, then marker and line for the nearest bus stop if there is
\* one, every line starting at the centroid.
DrawnFor(i) ==
    LET c == TurfCentroid(delhiPincodeLayer.layers[i].feature)
        at == <<c[2], c[1]>>
        m == getNearest(Arr(metroStations), c[2], c[1])
        b == getNearest(Arr(busStops), c[2], c[1])
        n == Len(lastLayers)
    IN  /\ n = 1 + (IF m = NULL THEN 0 ELSE 2) + (IF b = NULL THEN 0 ELSE 2)
        /\ lastLayers[1] = OverlayLayer("circleMarker", "centroid", at, at)
        /\ m # NULL =>
             /\ lastLayers[2] = OverlayLayer("marker", "metro", <<m.station.lat, m.station.lng>>, <<m.station.lat, m.station.lng>>)
             /\ lastLayers[3] = OverlayLayer("polyline", "metro", at, <<m.station.lat, m.station.lng>>)
        /\ b # NULL =>
             /\ lastLayers[n - 1] = OverlayLayer("marker", "bus", <<b.station.lat, b.station.lng>>, <<b.station.lat, b.station.lng>>)
             /\ lastLayers[n] = OverlayLayer("polyline", "bus", at, <<b.station.lat, b.station.lng>>)

\* C25: after any analyzeUserPincode and clearLast calls of script.js the
\* overlay layers on the map are exactly the elements of lastLayers, there
\* are 0, 1, 3 or 5 of them, and they are the centroid marker and the
\* marker and line per category with a nearest result of one analysis: of
\* the polygon the map is fitted to when the last call was a successful one.
C25_OverlayIsLastAnalysis ==
    /\ overlay = Range(lastLayers)
    /\ Len(lastLayers) \in {0, 1, 3, 5}
    /\ lastLayers # <<>> =>
         /\ \E i \in 1..Len(delhiPincodeLayer.layers) : DrawnFor(i)
         /\ Len(trace) = 9 => DrawnFor(mapView)

\* The last call drew the result of the second polygon of the file, with
\* a nearest metro station and a nearest bus stop.
C25_Witness ==
    /\ Len(trace) = 9
    /\ mapView = 2
    /\ Len(lastLayers) = 5
    /\ overlay = Range(lastLayers)

\* The steps of an analyzeUserPincode call that returned before its
\* getNearest calls: data still loading, pincode not found, centroid failure.
EarlyTraces ==
    { <<"analyzeUserPincode", "alert">>,
      <<"analyzeUserPincode", "findPolygonForPincode", "alert">>,
      <<"analyzeUserPincode", "findPolygonForPincode", "fitBounds", "centroid", "alert">> }

\* C26: an analyzeUserPincode call that ends early leaves lastLayers and the
\* overlay of the previous successful analysis as they were: every step
\* leaves them unchanged or is not such a call.
C26_EarlyEndKeepsOverlay ==
    [][\/ (lastLayers' = lastLayers /\ overlay' = overlay)
       \/ ~(trace' \in EarlyTraces /\ FindLocation)]_vars

\* A call that did not find its pincode, made with the result of an earlier
\* analysis on the map.
C26_Witness ==
    /\ trace = <<"analyzeUserPincode", "findPolygonForPincode", "alert">>
    /\ Len(lastLayers) >= 1
    /\ overlay = Range(lastLayers)

\* What a failed load leaves of the data and of the map, and what the calls
\* made since the page was opened ended with.
NothingLoaded ==
    /\ dataLayers = {}
    /\ delhiPincodeLayer = NULL
    /\ metroStations = <<>>
    /\ busStops = <<>>
    /\ overlay = {}
    /\ lastLayers = <<>>
    /\ mapView = 0
    /\ trace # <<>> =>
         /\ trace = <<"analyzeUserPincode", "alert">>
         /\ lastAlert = Alert("Data still loading", NULL, NULL)

\* C27: when one of the four files cannot be fetched from either candidate
\* path, no data layer is on the map, delhiPincodeLayer is null, the station
\* lists are empty, the persistent error banner is shown, and every
\* analyzeUserPincode call ends with the 'Data still loading' alert and
\* leaves the map as it was.
C27_FailedLoadIsAllOrNothing ==
    loadPc = "failed" =>
        /\ NothingLoaded
        /\ banner.visible
        /\ banner.isError
        /\ banner.text = "Failed to load some data"

-----------------------------------------------------------------------------
(* Claims about getNearest on lists with non-numeric coordinates           *)

\* Whether candidate s has a distance from the reference point.
HasDistance(s) == distanceKm(nLat, nLng, s.lat, s.lng) # NaN

\* C28 as stated: for every non-empty list, lists with candidates of
\* non-numeric coordinates included, getNearest returns a non-null result
\* whose station is a member of the list; it returns null only for an empty
\* or missing list.
C28_NonEmptyListGivesStation ==
    nPc = "done" =>
        IF nList = NULL \/ Len(nList.items) = 0 THEN nResult = NULL
        ELSE /\ nResult # NULL
             /\ nResult.station \in Range(nList.items)

\* C28 amended: getNearest returns a non-null result, whose station is a
\* member of the list and has a distance, exactly when some candidate has
\* numeric coordinates; it returns null for an empty or missing list and for
\* a list in which every candidate's distance is NaN.
C28_NullIffNoCandidateHasDistance ==
    nPc = "done" =>
        IF nList = NULL \/ \A i \in 1..Len(nList.items) : ~HasDistance(nList.items[i])
        THEN nResult = NULL
        ELSE /\ nResult # NULL
             /\ nResult.station \in Range(nList.items)
             /\ HasDistance(nResult.station)
             /\ nResult.distance_km # NaN

\* Two candidates, neither with numeric coordinates: the result is null.
C28_Witness ==
    /\ nPc = "done"
    /\ nList # NULL
    /\ Len(nList.items) = 2
    /\ \A i \in 1..2 : ~HasDistance(nList.items[i])
    /\ nResult = NULL

-----------------------------------------------------------------------------
(* Claims about the built-in table                                         *)

\* 0 <= x <= bound
Within(x, bound) == ~IsNaN(x) /\ ~QLess(x, Q(0, 1)) /\ ~QLess(bound, x)

\* C29: for every built-in business category and every market of the
\* built-in table totalScore lies in [0, 1] and normalizedScore = totalScore
\* * 100 in [0, 100]: the four weights of the category sum to 1, and each
\* sub-score lies between 0 and its weight (its inner combination is a convex
\* combination of normalized values in [0, 1]), so their sum lies in [0, 1].
C29_BuiltInTotalInUnitInterval ==
    rowPc = "scored" =>
        LET w == businessCategories[rowCategory]
            n == NormalizedMarket(microMarketData_builtIn[rowIndex], microMarketData_builtIn)
        IN  /\ QAdd(QAdd(QAdd(w.talent, w.cost), w.procurement), w.timing) = Q(1, 1)
            /\ \A f \in DOMAIN n : Within(n[f], Q(1, 1))
            /\ Within(rowScores.talentScore, w.talent)
            /\ Within(rowScores.costScore, w.cost)
            /\ Within(rowScores.procurementScore, w.procurement)
            /\ Within(rowScores.timingScore, w.timing)

\* Cyber City scored for a Medical Clinic: the row with the best rating, so
\* that its rating term is at its upper end.
C29_Witness ==
    /\ rowPc = "scored"
    /\ rowCategory = "Medical Clinic"
    /\ microMarketData_builtIn[rowIndex].rating = Q(47, 10)
    /\ QLess(Q(0, 1), rowScores.timingScore)
    /\ QLess(rowScores.timingScore, businessCategories[rowCategory].timing)

=============================================================================
